---------------------------- MODULE Spec2Model ----------------------------
(***************************************************************************)
(* Verification model of the Korvo1 voice firmware.                        *)
(*                                                                         *)
(* The subsystems are modelled one by one, each with its own               *)
(* specification:                                                          *)
(*   SpecTls   - the TLS serialization lock (tls_mutex.c) and the three    *)
(*               kinds of HTTPS client that exist in the firmware          *)
(*               (gemini_api.c, environmental_report.c, sensor_manager.c)  *)
(*   SpecWake  - the wake detector (openwakeword_esp32.cpp), the capture   *)
(*               worker and the wake callback (wake_word_manager.c)        *)
(*   SpecVoice - the voice command pipeline (voice_assistant.c)            *)
(*   SpecTlsTimed - the TLS lock with the time spent waiting for it        *)
(*   SpecAction - the action manager (action_manager.c) and its callers    *)
(*   SpecSensor - the sensor manager (sensor_manager.c)                    *)
(*   SpecCadence - the sensor manager with a fair scheduler                *)
(*   SpecPlay  - write_pcm_frames of the audio player (audio_player.c)     *)
(*   SpecWav   - audio_player_play_wav and its progress sink               *)
(*   SpecMp3   - the MP3 playback task, its decoder wrapper, play and stop *)
(*   SpecOw    - the chunk queue of the wake detector, chunk by chunk      *)
(*   SpecEr    - the LLM request of the environmental report               *)
(*   SpecRq    - one Gemini request and its response buffer                *)
(*   SpecTts    - gemini_tts_streaming and its sink                        *)
(*   SpecFr     - one playback job over a file of whole frames             *)
(*   SpecDt     - the detector counters over stops and starts              *)
(*   SpecSi     - sensor_integration start, stop and sampling task         *)
(***************************************************************************)
EXTENDS Integers, Sequences, FiniteSets

VARIABLES
    \* ---- tls_mutex.c ----
    s_tls_mutex,     \* "NULL" or "SEM": the static semaphore handle
    sem_count,       \* token count of the binary semaphore (0 or 1)
    \* ---- one HTTPS request per task ----
    http_pc,         \* position of each task inside its request
    holds,           \* task is between a successful take and its give
    client,          \* task owns an esp_http_client handle (TLS session)
    http_err,        \* result of esp_http_client_perform
    http_status,     \* HTTP status code of the response
    http_ret,        \* value returned to the caller of the request
    n_take,          \* successful tls_mutex_take calls of the current request
    n_give,          \* tls_mutex_give calls of the current request
    n_open,          \* esp_http_client_init successes of the current request
    \* ---- wake_word_manager.c ----
    s_running,       \* static bool s_running: capture worker should run
    cap_alive,       \* number of mic_capture_task instances inside their loop
    cap_exiting,     \* instances that left the loop and have cleanup to do
    s_stt_task,      \* the parallel STT queue and task have been created
    ctl_pc,          \* position of the task calling start / pause / resume
    \* ---- openwakeword_esp32.cpp ----
    ctx_running,     \* s_ctx.running
    task_handle,     \* s_ctx.task_handle: 0 is NULL, else a detection task
    audio_queue,     \* s_ctx.audio_queue: RMS level of each queued chunk
    speech_count,    \* static int speech_count of wake_word_task
    silence_count,   \* static int silence_count of wake_word_task
    det_pc,          \* position of each wake_word_task instance
    was_running,     \* local was_running of on_wake_word_detected
    samples_recorded,\* local samples_recorded: 0 none, 1 some
    \* ---- history of the chunks the detector has processed ----
    runSpeech,       \* length of the latest run of consecutive speech chunks
    runSilence,      \* length of the silence run that follows it
    run_clean,       \* nothing was dropped or stopped since it began
    sess_resumes,    \* capture restarts done by the session of each task
    running_at_pause,\* s_running when the pause outstanding was called
    exit_path,       \* how the latest session of each task ended
    cb_pc,           \* position of each task inside on_wake_word_detected
    \* ---- voice_assistant.c, action_manager.c ----
    vc_pc,           \* position inside process_voice_command
    vc_ret,          \* value process_voice_command returned
    transcribed_text,\* local transcribed_text ("-" before gemini_stt wrote it)
    llm_response,    \* local llm_response
    function_call,   \* local function_call
    s_device_state,  \* static device_state_t s_device_state
    dev_at_start,    \* s_device_state when the session began
    llm_first,       \* kind of the response to gemini_llm_with_functions
    llm_confirm,     \* kind of the response to the confirmation gemini_llm
    n_llm,           \* LLM requests of the session
    n_tts,           \* TTS requests of the session
    n_play,          \* audio_player_submit_pcm calls of the session
    n_action,        \* action_manager_execute calls of the session
    \* ---- time spent blocked in tls_mutex_take ----
    tick_rate_hz,    \* configTICK_RATE_HZ of the build
    waited_ms,       \* how long each task has been blocked in xSemaphoreTake
    gave_up_early,   \* the task's latest take timed out before the time
                     \* its caller asked for
    \* ---- action manager (action_manager.c) ----
    s_led_strip,     \* static led_strip_handle_t s_led_strip
    pixels,          \* what the LED strip shows
    s_paused_led_pattern,    \* static char s_paused_led_pattern[512]
    s_has_paused_led_state,  \* static bool s_has_paused_led_state
    am_pc,           \* per task: "idle", or "executing" inside
                     \* action_manager_execute / action_manager_execute_json
    am_ret,          \* return value of the latest completed execution
    am_unknown,      \* the latest completed execution had an unknown tag
    since_pause,     \* "paused" after a Pause that took effect, "resumed"
                     \* after the Play that followed it, else "none"
    pixels_at_pause, \* the strip as it was when that Pause was executed
    \* ---- sensor manager (sensor_manager.c) ----
    s_sensors,       \* s_sensors[0 .. s_sensor_count-1]: the sensor names
    s_should_run,    \* static bool s_should_run
    sm_running,      \* static bool s_running of sensor_manager.c
    sm_pc,           \* per publisher task: "none", "created", "loop",
                     \* "collect" or "delay"
    sm_elapsed,      \* per publisher task: milliseconds since last_wake
    sm_outcome,      \* per publisher task: how the cycle it has just
                     \* finished ended
    sm_after_failure,\* per publisher task: the cycle before the one that
                     \* is running failed
    sm_packet,       \* keys of the sensors record of the latest payload
    sm_foreign,      \* a callback of that cycle populated keys the
                     \* transformation does not read
    sm_caller,       \* the task using the API: "idle", or "stopping" inside
                     \* sensor_manager_stop
    sm_ret,          \* return value of the latest API call
    sm_started,      \* sensor_manager_start has returned ESP_OK and
                     \* sensor_manager_stop has not returned since
    \* ---- write_pcm_frames (audio_player.c) ----
    samples,         \* the source of the job: the int16_t samples
    num_channels,    \* 1 or 2
    frames_written,  \* frames of the source already handed over
    stereo_buffer,   \* the chunk being written, as int16_t values
    bytes_to_write,  \* size of the chunk in bytes
    total_written,   \* bytes of the chunk the DMA has accepted
    tx,              \* every byte the DMA has accepted for the job
    wp_pc,           \* "idle", "chunk", "write" or "done"
    wp_ret,          \* return value of write_pcm_frames
    saw_partial,     \* a write of the job was accepted only in part
    saw_zero,        \* a write of the job was accepted with zero bytes
    \* ---- audio_player_play_wav (audio_player.c) ----
    wav,             \* the container blob and the progress sink of the job
    wav_pc,          \* "idle", "write" (inside write_pcm_frames) or "done"
    wav_ret,         \* return value of audio_player_play_wav
    frames_processed,\* frames of the data chunk handed to write_pcm_frames
    sink,            \* the calls the progress sink has received for the job
    wav_tx,          \* bytes the DMA has accepted for the job
    wav_started,     \* the job passed every check before its first write
    wav_dma_error,   \* a write of the job failed in the DMA
    \* ---- audio_file_manager.c and mp3_decoder.c ----
    s_playing,       \* static bool s_playing
    s_playback_task, \* static TaskHandle_t s_playback_task: a task or 0
    mp3_pc,          \* per playback task: "none", "start", "submit",
                     \* "delay", "loop" or "exited"
    bytes_read,      \* per task: bytes waiting in mp3_buffer
    eof,             \* per task: the file gave less than was asked for
    file_left,       \* per task: bytes of the file not read yet
    duration_seconds,\* per task: the duration cap, -1 for none
    cap_elapsed,     \* per task: elapsed_us >= duration_us holds
    dec_info,        \* per task: what mp3dec_decode_frame reported in
                     \* this pass of the loop
    dec_out,         \* per task: what mp3_decoder_decode reported in
                     \* this pass of the loop
    httpd_pc,        \* the caller of audio_file_manager_play: "idle",
                     \* "poll" (inside audio_file_manager_stop)
    timeout,         \* int timeout of audio_file_manager_stop
    stop_left_by,    \* how the wait of the last stop ended
    stop_requested,  \* per task: a stop set s_playing false for it
    ran_after,       \* per task: it began an iteration after its stop was
                     \* requested or its cap had elapsed
    \* ---- openwakeword_process and the chunk queue, chunk by chunk ----
    ow_running,      \* s_ctx.running
    ow_queue,        \* s_ctx.audio_queue: the chunks queued, oldest first
    owp_calls,       \* calls of openwakeword_process so far
    owp_before,      \* the queue when the last call began
    owp_sent,        \* the chunks the last call submitted, in order
    owp_ret,         \* return value of the last call, "-" before any
    ow_received,     \* the chunks the detection task has received
    \* ---- environmental_report.c: the LLM request of a report ----
    er_pc,           \* position inside environmental_report_generate_and_speak
    er_retry,        \* local retry of the LLM loop
    er_ret,          \* local ret
    er_resps,        \* the responses the attempts of this report met, in order
    er_waited_ms,    \* delay taken since the previous attempt
    \* ---- gemini_api.c: one request and its response buffer ----
    rq_pc,           \* position inside http_post_json_with_auth
    rq_ret,          \* value it returned ("-" while it runs)
    resp_cap,        \* response->cap
    resp_len,        \* response->len
    resp_data,       \* response->data: the events copied, in order
    rq_events,       \* HTTP_EVENT_ON_DATA events delivered so far
    rq_sent,         \* body bytes delivered so far
    rq_overflow,     \* the event handler returned ESP_ERR_NO_MEM
    \* ---- gemini_api.c: gemini_tts_streaming ----
    tts_pc,          \* position inside gemini_tts_streaming
    tts_ret,         \* value it returned ("-" while it runs)
    tts_body,        \* audio blocks in the response the server sends
    tts_received,    \* blocks of the response held in the response buffer
    tts_audio,       \* blocks decoded into audio_samples
    tts_sink,        \* the sink calls so far: the blocks each was given
    \* ---- audio_file_manager.c: one playback job over a file of frames ----
    fr_pc,           \* position inside mp3_playback_task
    fr_file,         \* the file: the sizes of its frames, in order
    fr_pos,          \* bytes fread has taken from the file
    fr_offset,       \* file offset of mp3_buffer[0]
    fr_bytes_read,   \* local bytes_read
    fr_eof,          \* local eof
    fr_submitted,    \* the frames given to audio_player_submit_pcm, in order
    \* ---- openwakeword_esp32.cpp: the detector's counters over restarts ----
    dt_running,      \* s_ctx.running
    dt_speech_count, \* static int speech_count of wake_word_task
    dt_silence_count,\* static int silence_count of wake_word_task
    dt_since_start,  \* speech chunks processed since the latest start
    dt_starts,       \* starts of the detector so far
    dt_event,        \* what the latest chunk led to: "-" or "wake"
    \* ---- sensor_integration.c: start, stop and the sampling task ----
    si_initialized,  \* s_initialized
    si_running,      \* s_running
    si_handle,       \* s_task_handle is not NULL
    si_task,         \* sensor_sampling_task: "none", "ready", "sampling", "deleted"
    si_pc,           \* sensor_integration_start: "idle" or "created"
    si_ret,          \* what the latest start or stop returned, "-" before
    si_started,      \* the latest call that returned was a successful start
    si_samples,      \* passes of the sampling loop so far
    si_calls         \* calls of start and stop so far

tlsVars == <<s_tls_mutex, sem_count, http_pc, holds, client, http_err,
             http_status, http_ret, n_take, n_give, n_open>>

wakeVars == <<s_running, cap_alive, cap_exiting, s_stt_task, ctl_pc,
              ctx_running, task_handle, audio_queue, speech_count,
              silence_count, det_pc, was_running, samples_recorded,
              runSpeech, runSilence, run_clean, sess_resumes, exit_path,
              cb_pc, running_at_pause>>

voiceVars == <<vc_pc, vc_ret, transcribed_text, llm_response, function_call,
               s_device_state, dev_at_start, llm_first, llm_confirm, n_llm,
               n_tts, n_play, n_action>>

timeVars == <<tick_rate_hz, waited_ms, gave_up_early>>

\* The LED state the action manager owns.
ledVars == <<s_led_strip, pixels, s_paused_led_pattern,
             s_has_paused_led_state>>

\* The callers of the action manager and the record of their calls.
callVars == <<am_pc, am_ret, am_unknown, since_pause, pixels_at_pause>>

sensVars == <<s_sensors, s_should_run, sm_running, sm_pc, sm_elapsed,
              sm_outcome, sm_after_failure, sm_packet, sm_foreign, sm_caller, sm_ret,
              sm_started>>

\* One call of write_pcm_frames and the record of what the DMA accepted.
playVars == <<samples, num_channels, frames_written, stereo_buffer,
              bytes_to_write, total_written, tx, wp_pc, wp_ret, saw_partial,
              saw_zero>>

wavVars == <<wav, wav_pc, wav_ret, frames_processed, sink, wav_tx,
             wav_started, wav_dma_error>>

\* The subsystems that share no state with the ones above.
mp3Vars == <<s_playing, s_playback_task, mp3_pc, bytes_read, eof, file_left,
             duration_seconds, cap_elapsed, dec_info, dec_out, httpd_pc,
             timeout, stop_left_by, stop_requested, ran_after>>

owVars == <<ow_running, ow_queue, owp_calls, owp_before, owp_sent, owp_ret,
            ow_received>>

erVars == <<er_pc, er_retry, er_ret, er_resps, er_waited_ms>>

rqVars == <<rq_pc, rq_ret, resp_cap, resp_len, resp_data, rq_events, rq_sent,
            rq_overflow>>

ttsVars == <<tts_pc, tts_ret, tts_body, tts_received, tts_audio, tts_sink>>

frVars == <<fr_pc, fr_file, fr_pos, fr_offset, fr_bytes_read, fr_eof, fr_submitted>>

dtVars == <<dt_running, dt_speech_count, dt_silence_count, dt_since_start, dt_starts, dt_event>>

siVars == <<si_initialized, si_running, si_handle, si_task, si_pc, si_ret, si_started, si_samples, si_calls>>

extVars == <<wavVars, mp3Vars, owVars, erVars, rqVars, ttsVars, frVars, dtVars, siVars>>

\* The state of the subsystems modelled first.
coreVars == <<tlsVars, wakeVars, voiceVars, timeVars, ledVars, callVars,
              sensVars>>

\* Everything the TLS lock and the HTTP requests never write.
nonTlsVars == <<sensVars, playVars, extVars, wakeVars, voiceVars, timeVars, ledVars, callVars>>

\* Everything the wake detector and the capture worker never write.
outsideWakeVars == <<sensVars, playVars, extVars, tlsVars, voiceVars, timeVars, ledVars, callVars>>

\* The same and what only pause and resume write.
nonWakeVars == <<outsideWakeVars, running_at_pause>>

\* Everything process_voice_command never writes.
nonVoiceVars == <<sensVars, playVars, extVars, tlsVars, wakeVars, timeVars, ledVars, callVars>>

\* Everything execute_function_call never writes, outside the voice session.
nonVoiceActionVars == <<tlsVars, wakeVars, timeVars, callVars, sensVars, playVars, extVars>>

vars == <<tlsVars, wakeVars, voiceVars, timeVars, ledVars, callVars,
          sensVars, playVars, extVars>>

----------------------------------------------------------------------------
(***************************************************************************)
(* TLS serialization lock and HTTPS clients                                *)
(***************************************************************************)

\* Tasks that call http_post_json_with_auth: the wake callback's voice
\* session and the parallel STT task (wake_word_manager.c:555,584).
GeminiTasks == {"voice", "stt_processor"}

\* Task that runs environmental_report_fetch_weather_data.
WeatherTasks == {"weather"}

\* Task that runs sensor_manager_collect_and_publish.
SensorTasks == {"sensor_manager"}

LockingTasks == GeminiTasks \cup WeatherTasks

HttpTasks == LockingTasks \cup SensorTasks

\* Outcomes of esp_http_client_perform: transport result and status code.
PerformOutcomes ==
    { [err |-> "ESP_OK", status |-> 200],
      [err |-> "ESP_OK", status |-> 500],
      [err |-> "ESP_ERR_HTTP_CONNECT", status |-> 0],
      [err |-> "ESP_ERR_NO_MEM", status |-> 200] }

\* tls_mutex_init: creates the binary semaphore and gives it once.
tls_mutex_init ==
    /\ s_tls_mutex = "NULL"
    /\ \E created \in BOOLEAN :
          IF created
             THEN s_tls_mutex' = "SEM" /\ sem_count' = 1
             ELSE UNCHANGED <<s_tls_mutex, sem_count>>
    /\ UNCHANGED <<http_pc, holds, client, http_err, http_status, http_ret,
                   n_take, n_give, n_open>>
    /\ UNCHANGED nonTlsVars

\* xSemaphoreTake succeeds exactly when the token is there.
xSemaphoreTake_nocheck == TRUE

xSemaphoreTake == sem_count = 1

\* tls_mutex_take as seen by its caller: "ESP_ERR_INVALID_STATE" when the
\* semaphore was never created, "ESP_OK" when the token was taken,
\* "ESP_ERR_TIMEOUT" when the wait ran out with the token still away.
tls_mutex_take(t, res) ==
    \/ /\ s_tls_mutex = "NULL"
       /\ res = "ESP_ERR_INVALID_STATE"
       /\ UNCHANGED <<sem_count, holds, n_take>>
    \/ /\ s_tls_mutex # "NULL"
       /\ xSemaphoreTake
       /\ res = "ESP_OK"
       /\ sem_count' = 0
       /\ holds' = [holds EXCEPT ![t] = TRUE]
       /\ n_take' = [n_take EXCEPT ![t] = @ + 1]
    \/ /\ s_tls_mutex # "NULL"
       /\ sem_count = 0
       /\ res = "ESP_ERR_TIMEOUT"
       /\ UNCHANGED <<sem_count, holds, n_take>>

\* tls_mutex_give: xSemaphoreGive on a binary semaphore sets the count to 1
\* (and fails, leaving it at 1, when the token is already there).
tls_mutex_give(t) ==
    /\ sem_count' = IF s_tls_mutex = "NULL" THEN sem_count ELSE 1
    /\ holds' = [holds EXCEPT ![t] = FALSE]
    /\ n_give' = [n_give EXCEPT ![t] = @ + 1]

\* A request begins: per-request bookkeeping starts from zero.  For the
\* Gemini client the response buffer is allocated first and the request
\* returns ESP_ERR_NO_MEM when even the 24 KB fallback fails.
HttpStart(t) ==
    /\ http_pc[t] \in {"idle", "done"}
    /\ n_take' = [n_take EXCEPT ![t] = 0]
    /\ n_give' = [n_give EXCEPT ![t] = 0]
    /\ n_open' = [n_open EXCEPT ![t] = 0]
    /\ http_err' = [http_err EXCEPT ![t] = "ESP_OK"]
    /\ http_status' = [http_status EXCEPT ![t] = 0]
    /\ \E alloc_ok \in BOOLEAN :
          IF t \in GeminiTasks /\ ~alloc_ok
             THEN /\ http_pc' = [http_pc EXCEPT ![t] = "done"]
                  /\ http_ret' = [http_ret EXCEPT ![t] = "ESP_ERR_NO_MEM"]
             ELSE /\ http_pc' = [http_pc EXCEPT ![t] =
                                    IF t \in SensorTasks THEN "init" ELSE "take"]
                  /\ http_ret' = [http_ret EXCEPT ![t] = "ESP_OK"]
    /\ UNCHANGED <<s_tls_mutex, sem_count, holds, client>>
    /\ UNCHANGED nonTlsVars

\* http_post_json_with_auth / fetch_weather_data: acquire the lock.
HttpTake(t) ==
    /\ t \in LockingTasks
    /\ http_pc[t] = "take"
    /\ \E res \in {"ESP_OK", "ESP_ERR_TIMEOUT", "ESP_ERR_INVALID_STATE"} :
          /\ tls_mutex_take(t, res)
          /\ IF res = "ESP_OK"
                THEN /\ http_pc' = [http_pc EXCEPT ![t] = "init"]
                     /\ UNCHANGED http_ret
                ELSE /\ http_pc' = [http_pc EXCEPT ![t] = "done"]
                     /\ http_ret' = [http_ret EXCEPT ![t] = "ESP_ERR_TIMEOUT"]
    /\ UNCHANGED <<s_tls_mutex, client, http_err, http_status, n_give, n_open>>
    /\ UNCHANGED nonTlsVars

\* What the failure branch of esp_http_client_init does with the lock.
InitFailureNoGive(t) ==
    /\ http_pc' = [http_pc EXCEPT ![t] = "done"]
    /\ UNCHANGED <<sem_count, holds, n_give>>

InitFailure(t) ==
    /\ http_pc' = [http_pc EXCEPT ![t] = "done"]
    /\ IF t \in LockingTasks
          THEN tls_mutex_give(t)
          ELSE UNCHANGED <<sem_count, holds, n_give>>

\* esp_http_client_init: the client, or NULL.
HttpInit(t) ==
    /\ http_pc[t] = "init"
    /\ \E created \in BOOLEAN :
          IF created
             THEN /\ client' = [client EXCEPT ![t] = TRUE]
                  /\ n_open' = [n_open EXCEPT ![t] = @ + 1]
                  /\ http_pc' = [http_pc EXCEPT ![t] = "perform"]
                  /\ UNCHANGED <<sem_count, holds, n_give, http_ret>>
             ELSE /\ InitFailure(t)
                  /\ http_ret' = [http_ret EXCEPT ![t] =
                                    IF t \in GeminiTasks THEN "ESP_FAIL"
                                    ELSE IF t \in WeatherTasks THEN "ESP_ERR_NO_MEM"
                                    ELSE "ESP_OK"]
                  /\ UNCHANGED <<client, n_open>>
    /\ UNCHANGED <<s_tls_mutex, http_err, http_status, n_take>>
    /\ UNCHANGED nonTlsVars

\* esp_http_client_perform.
HttpPerform(t) ==
    /\ http_pc[t] = "perform"
    /\ \E o \in PerformOutcomes :
          /\ http_err' = [http_err EXCEPT ![t] = o.err]
          /\ http_status' = [http_status EXCEPT ![t] = o.status]
    /\ http_pc' = [http_pc EXCEPT ![t] = "cleanup"]
    /\ UNCHANGED <<s_tls_mutex, sem_count, holds, client, http_ret,
                   n_take, n_give, n_open>>
    /\ UNCHANGED nonTlsVars

\* esp_http_client_cleanup.
HttpCleanup(t) ==
    /\ http_pc[t] = "cleanup"
    /\ client' = [client EXCEPT ![t] = FALSE]
    /\ http_pc' = [http_pc EXCEPT ![t] =
                      IF t \in LockingTasks THEN "give" ELSE "done"]
    /\ UNCHANGED <<s_tls_mutex, sem_count, holds, http_err, http_status,
                   http_ret, n_take, n_give, n_open>>
    /\ UNCHANGED nonTlsVars

\* The value the request returns after the lock was released.
HttpResult(t) ==
    IF t \in GeminiTasks
       THEN IF http_err[t] # "ESP_OK" THEN http_err[t]
            ELSE IF http_status[t] \div 100 # 2 THEN "ESP_FAIL"
            ELSE "ESP_OK"
       ELSE "ESP_OK"

\* tls_mutex_give after the connection is complete, then the return.
HttpGive(t) ==
    /\ t \in LockingTasks
    /\ http_pc[t] = "give"
    /\ tls_mutex_give(t)
    /\ http_ret' = [http_ret EXCEPT ![t] = HttpResult(t)]
    /\ http_pc' = [http_pc EXCEPT ![t] = "done"]
    /\ UNCHANGED <<s_tls_mutex, client, http_err, http_status, n_take, n_open>>
    /\ UNCHANGED nonTlsVars

TlsBoot ==
    /\ s_tls_mutex = "NULL"
    /\ sem_count = 0
    /\ http_pc = [t \in HttpTasks |-> "idle"]
    /\ holds = [t \in HttpTasks |-> FALSE]
    /\ client = [t \in HttpTasks |-> FALSE]
    /\ http_err = [t \in HttpTasks |-> "ESP_OK"]
    /\ http_status = [t \in HttpTasks |-> 0]
    /\ http_ret = [t \in HttpTasks |-> "ESP_OK"]
    /\ n_take = [t \in HttpTasks |-> 0]
    /\ n_give = [t \in HttpTasks |-> 0]
    /\ n_open = [t \in HttpTasks |-> 0]

NextTls ==
    \/ tls_mutex_init
    \/ \E t \in HttpTasks : HttpStart(t)
    \/ \E t \in HttpTasks : HttpTake(t)
    \/ \E t \in HttpTasks : HttpInit(t)
    \/ \E t \in HttpTasks : HttpPerform(t)
    \/ \E t \in HttpTasks : HttpCleanup(t)
    \/ \E t \in HttpTasks : HttpGive(t)

----------------------------------------------------------------------------
(***************************************************************************)
(* Claims about the TLS serialization lock (checked under SpecTls)         *)
(***************************************************************************)

\* C1: for all interleavings of concurrent HTTP attempts, at any instant at
\* most one task is between a successful tls_mutex_take and its matching
\* tls_mutex_give.
C1_AtMostOneHolder == Cardinality({t \in HttpTasks : holds[t]}) <= 1

\* C1 witness: one request holds the lock with its client open while a
\* second request is waiting in tls_mutex_take.
C1_Witness ==
    \E t, u \in LockingTasks :
        /\ t # u
        /\ holds[t] /\ client[t]
        /\ http_pc[u] = "take"
        /\ sem_count = 0

\* C2: every task that has a TLS session open (Remote API client, weather
\* fetch, sensor telemetry publisher) holds the TLS lock for as long as its
\* HTTPS client exists, so at most one TLS session is open at any instant.
C2_SessionUnderLock ==
    /\ \A t \in HttpTasks : client[t] => holds[t]
    /\ Cardinality({t \in HttpTasks : client[t]}) <= 1

\* C10: every request of the Remote API client and of the weather fetch
\* acquires the lock before its HTTP client exists, releases it exactly once
\* and only after the client is gone, on every exit path; a request whose
\* acquisition failed opens no client and releases nothing.
C10_LockDiscipline ==
    \A t \in LockingTasks :
        /\ client[t] => holds[t]
        /\ n_give[t] <= n_take[t]
        /\ n_take[t] <= 1
        /\ holds[t] <=> (n_take[t] = 1 /\ n_give[t] = 0)
        /\ http_pc[t] = "done" =>
              /\ ~holds[t] /\ ~client[t]
              /\ n_give[t] = n_take[t]
              /\ (n_take[t] = 0 => n_open[t] = 0)

\* C10 witness: one request finished after a transport failure having
\* acquired and released once, another finished after client creation
\* failed having acquired and released once, and a third gave up waiting
\* for the lock without opening a client or releasing anything.
C10_Witness ==
    \E t, u, w \in LockingTasks :
        /\ t # u /\ u # w /\ t # w
        /\ http_pc[t] = "done" /\ n_open[t] = 1 /\ n_take[t] = 1 /\ n_give[t] = 1
        /\ http_err[t] = "ESP_ERR_HTTP_CONNECT"
        /\ http_pc[u] = "done" /\ n_open[u] = 0 /\ n_take[u] = 1 /\ n_give[u] = 1
        /\ http_pc[w] = "done" /\ http_ret[w] = "ESP_ERR_TIMEOUT"
        /\ n_take[w] = 0 /\ n_give[w] = 0 /\ n_open[w] = 0
        /\ s_tls_mutex = "SEM"

----------------------------------------------------------------------------
(***************************************************************************)
(* The TLS lock with the time a task spends blocked in tls_mutex_take.     *)
(* Time advances in steps of StepMs while a task is blocked.               *)
(***************************************************************************)

\* Granularity of time, in milliseconds.
StepMs == 500

\* Tick rates a build can be configured with (CONFIG_FREERTOS_HZ): the
\* ESP-IDF default and 1 kHz.
TickRates == {100, 1000}

\* pdMS_TO_TICKS: (ms * configTICK_RATE_HZ) / 1000 in TickType_t.  The
\* products formed here stay below 2^24, so the 32-bit width never wraps.
pdMS_TO_TICKS(ms) == (ms * tick_rate_hz) \div 1000

\* The time the caller of tls_mutex_take asks for, in milliseconds.
CallerTimeoutMs(t) == IF t \in WeatherTasks THEN 15000 ELSE 10000

\* The argument the caller passes: already converted to ticks.
TakeArgument(t) == pdMS_TO_TICKS(CallerTimeoutMs(t))

\* tls_mutex_take converts its argument to ticks once more.
TimeoutTicks(t) == pdMS_TO_TICKS(TakeArgument(t))

\* The time xSemaphoreTake blocks before it gives up, in milliseconds.
EffectiveTimeoutMs(t) == (TimeoutTicks(t) * 1000) \div tick_rate_hz

TimeBoot ==
    /\ tick_rate_hz \in TickRates
    /\ waited_ms = [t \in HttpTasks |-> 0]
    /\ gave_up_early = [t \in HttpTasks |-> FALSE]

\* http_post_json_with_auth / fetch_weather_data blocked in tls_mutex_take:
\* the token is taken as soon as it is there, and the wait gives up only
\* when the timeout has run out.
HttpTakeTimed(t) ==
    /\ t \in LockingTasks
    /\ http_pc[t] = "take"
    /\ \E res \in {"ESP_OK", "ESP_ERR_TIMEOUT", "ESP_ERR_INVALID_STATE"} :
          /\ tls_mutex_take(t, res)
          /\ res = "ESP_ERR_TIMEOUT" => waited_ms[t] >= EffectiveTimeoutMs(t)
          /\ IF res = "ESP_OK"
                THEN /\ http_pc' = [http_pc EXCEPT ![t] = "init"]
                     /\ UNCHANGED http_ret
                ELSE /\ http_pc' = [http_pc EXCEPT ![t] = "done"]
                     /\ http_ret' = [http_ret EXCEPT ![t] = "ESP_ERR_TIMEOUT"]
          /\ gave_up_early' = [gave_up_early EXCEPT ![t] =
                                 /\ res = "ESP_ERR_TIMEOUT"
                                 /\ waited_ms[t] < CallerTimeoutMs(t)]
    /\ waited_ms' = [waited_ms EXCEPT ![t] = 0]
    /\ UNCHANGED <<s_tls_mutex, client, http_err, http_status, n_give, n_open>>
    /\ UNCHANGED <<wakeVars, voiceVars, tick_rate_hz, ledVars, callVars,
                   sensVars, playVars, extVars>>

\* Tasks blocked in xSemaphoreTake.
Blocked ==
    {t \in LockingTasks :
        http_pc[t] = "take" /\ s_tls_mutex # "NULL" /\ sem_count = 0}

\* StepMs pass while the token stays away: no blocked task has reached its
\* timeout yet.
TimePasses ==
    /\ Blocked # {}
    /\ \A t \in Blocked : waited_ms[t] < EffectiveTimeoutMs(t)
    /\ waited_ms' = [t \in HttpTasks |->
                        IF t \in Blocked THEN waited_ms[t] + StepMs
                        ELSE waited_ms[t]]
    /\ UNCHANGED <<tlsVars, wakeVars, voiceVars, tick_rate_hz, gave_up_early>>
    /\ UNCHANGED <<ledVars, callVars, sensVars, playVars, extVars>>

NextTlsTimed ==
    \/ tls_mutex_init
    \/ TimePasses
    \/ \E t \in HttpTasks : HttpStart(t)
    \/ \E t \in HttpTasks : HttpTakeTimed(t)
    \/ \E t \in HttpTasks : HttpInit(t)
    \/ \E t \in HttpTasks : HttpPerform(t)
    \/ \E t \in HttpTasks : HttpCleanup(t)
    \/ \E t \in HttpTasks : HttpGive(t)

\* C12: the TLS lock is created and available before any task tries to
\* acquire it: no request is in tls_mutex_take, or has come back from it
\* with an error, while the lock does not exist.
C12_LockCreatedBeforeAcquire ==
    \A t \in LockingTasks :
        s_tls_mutex = "NULL" =>
            /\ http_pc[t] # "take"
            /\ ~(http_pc[t] = "done" /\ http_ret[t] = "ESP_ERR_TIMEOUT")

\* C11: a request that finds the lock taken stays blocked for the time its
\* caller specified (10 s for the Gemini requests, 15 s for the weather
\* request) before it gives up: no take times out earlier than that.
C11_BlocksForCallerTimeout ==
    \A t \in LockingTasks : ~gave_up_early[t]

----------------------------------------------------------------------------
(***************************************************************************)
(* Wake detector (openwakeword_esp32.cpp) and wake word manager            *)
(* (wake_word_manager.c)                                                   *)
(*                                                                         *)
(* Timing: the delays of 200 ms and 500 ms in the manager are longer than  *)
(* one iteration of the capture loop (an I2S read of at most 100 ms) and   *)
(* one iteration of the detection loop (a queue receive of at most 100     *)
(* ms), so a delay ends only after every loop that saw its exit condition  *)
(* has left.  A detection task that is inside the wake callback stays      *)
(* there for seconds (3 s of recording, then the cloud round trips).       *)
(*                                                                         *)
(* Left out: wake_word_manager_stop and wake_word_manager_deinit, which    *)
(* nothing calls; the failure of the 1 KB buffer allocations at the start  *)
(* of wake_word_task and mic_capture_task; the contents of the parallel    *)
(* STT queue, which the wake path never reads.  Creating a task beyond     *)
(* MaxDet or MaxCap is disabled instead of failing.                        *)
(***************************************************************************)

\* Detection task instances that can exist at once.
MaxDet == 2

\* Capture task instances that can exist at once.
MaxCap == 2

\* Chunks the audio queue holds (16 in openwakeword_init).
QueueCap == 1

\* The chunk counters are only compared with the thresholds below, so they
\* stop counting at MaxCount.
MaxCount == 3

ENERGY_THRESHOLD == 5

SPEECH_CHUNKS_REQUIRED == 3

SILENCE_CHUNKS_REQUIRED == 2

\* RMS energy of a captured chunk: at the threshold, and above it.
RmsLevels == {5, 6}

DetIds == 1 .. MaxDet

Bump(n) == IF n < MaxCount THEN n + 1 ELSE n

FreeDet == {d \in DetIds : det_pc[d] = "none"}

NewDet == CHOOSE d \in FreeDet : \A e \in FreeDet : d <= e

\* State after wake_word_manager_init and openwakeword_init succeeded and
\* before the first wake_word_manager_start.
WakeBoot ==
    /\ s_running = FALSE
    /\ cap_alive = 0
    /\ cap_exiting = 0
    /\ s_stt_task = FALSE
    /\ ctl_pc = "boot"
    /\ ctx_running = FALSE
    /\ task_handle = 0
    /\ audio_queue = <<>>
    /\ speech_count = 0
    /\ silence_count = 0
    /\ det_pc = [d \in DetIds |-> "none"]
    /\ cb_pc = [d \in DetIds |-> "-"]
    /\ was_running = [d \in DetIds |-> FALSE]
    /\ samples_recorded = [d \in DetIds |-> 0]
    /\ runSpeech = 0
    /\ runSilence = 0
    /\ run_clean = FALSE
    /\ sess_resumes = [d \in DetIds |-> 0]
    /\ exit_path = [d \in DetIds |-> "none"]
    /\ running_at_pause = "-"

ghostRun == <<runSpeech, runSilence, run_clean>>

\* openwakeword_start: no-op when running, else a new wake_word_task.
openwakeword_start ==
    IF ctx_running
       THEN UNCHANGED <<ctx_running, task_handle, det_pc>>
       ELSE /\ FreeDet # {}
            /\ ctx_running' = TRUE
            /\ task_handle' = NewDet
            /\ det_pc' = [det_pc EXCEPT ![NewDet] = "loop"]

\* wake_word_manager_start past its s_running test: start the detector,
\* create the STT queue and task once, create a mic_capture_task.
StartCapture ==
    /\ cap_alive + cap_exiting < MaxCap
    /\ openwakeword_start
    /\ s_stt_task' = TRUE
    /\ s_running' = TRUE
    /\ cap_alive' = cap_alive + 1

wake_word_manager_start ==
    IF s_running
       THEN UNCHANGED <<s_running, cap_alive, s_stt_task, ctx_running,
                        task_handle, det_pc>>
       ELSE StartCapture

\* wake_word_manager_resume.
wake_word_manager_resume ==
    IF ~s_running
       THEN wake_word_manager_start
       ELSE UNCHANGED <<s_running, cap_alive, s_stt_task, ctx_running,
                        task_handle, det_pc>>

\* openwakeword_process: one chunk of at most 512 samples is queued, or
\* dropped when the queue is full or the detector is not running.
openwakeword_process(rms) ==
    IF ctx_running /\ Len(audio_queue) < QueueCap
       THEN /\ audio_queue' = Append(audio_queue, rms)
            /\ UNCHANGED run_clean
       ELSE /\ run_clean' = FALSE
            /\ UNCHANGED audio_queue

\* mic_capture_task, one loop iteration with s_running set: an I2S read
\* that returned data, handed to the detector.
CapIterate ==
    /\ cap_alive > 0
    /\ s_running
    /\ \E rms \in RmsLevels : openwakeword_process(rms)
    /\ UNCHANGED <<s_running, cap_alive, cap_exiting, s_stt_task, ctl_pc,
                   ctx_running, task_handle, speech_count, silence_count,
                   det_pc, cb_pc, was_running, samples_recorded, runSpeech,
                   runSilence, sess_resumes, exit_path>>
    /\ UNCHANGED nonWakeVars

\* mic_capture_task sees s_running false and leaves its loop.
CapLeaveLoop ==
    /\ cap_alive > 0
    /\ ~s_running
    /\ cap_alive' = cap_alive - 1
    /\ cap_exiting' = cap_exiting + 1
    /\ UNCHANGED <<s_running, s_stt_task, ctl_pc, ctx_running, task_handle,
                   audio_queue, speech_count, silence_count, det_pc, cb_pc,
                   was_running, samples_recorded, ghostRun, sess_resumes,
                   exit_path>>
    /\ UNCHANGED nonWakeVars

\* mic_capture_task after its loop: frees its buffers, clears s_running and
\* deletes itself.
CapExit ==
    /\ cap_exiting > 0
    /\ cap_exiting' = cap_exiting - 1
    /\ s_running' = FALSE
    /\ UNCHANGED <<cap_alive, s_stt_task, ctl_pc, ctx_running, task_handle,
                   audio_queue, speech_count, silence_count, det_pc, cb_pc,
                   was_running, samples_recorded, ghostRun, sess_resumes,
                   exit_path>>
    /\ UNCHANGED nonWakeVars

\* A delay of 200 ms or more has run out: every capture task that saw
\* s_running false has left and deleted itself.
CaptureSettled ==
    /\ cap_exiting = 0
    /\ s_running \/ cap_alive = 0

\* Outcomes of voice_assistant_process_command.
CommandOutcomes ==
    {"ESP_OK", "ESP_FAIL", "ESP_ERR_INVALID_STATE", "ESP_ERR_NO_MEM"}

\* wake_word_task, one chunk received from the queue: RMS energy against
\* the threshold, the two static counters, and on a wake event the call of
\* on_wake_word_detected up to its first delay.
DetProcess(d) ==
    /\ det_pc[d] = "loop"
    /\ ctx_running
    /\ audio_queue # <<>>
    /\ LET rms == Head(audio_queue)
           speech == rms > ENERGY_THRESHOLD
           sc == IF speech THEN Bump(speech_count) ELSE speech_count
           qc == IF speech THEN 0 ELSE Bump(silence_count)
           fire == /\ ~speech
                   /\ sc >= SPEECH_CHUNKS_REQUIRED
                   /\ qc >= SILENCE_CHUNKS_REQUIRED
           newBurst == speech /\ (runSpeech = 0 \/ runSilence > 0)
           rs == IF ~speech THEN runSpeech
                 ELSE IF newBurst THEN 1
                 ELSE IF runSpeech <= MaxCount THEN runSpeech + 1
                 ELSE runSpeech
           rq == IF speech THEN 0 ELSE Bump(runSilence)
       IN  /\ audio_queue' = Tail(audio_queue)
           /\ speech_count' = sc
           /\ silence_count' = qc
           /\ runSpeech' = rs
           /\ runSilence' = rq
           /\ run_clean' = IF newBurst THEN TRUE ELSE run_clean
           /\ IF fire
                 THEN /\ det_pc' = [det_pc EXCEPT ![d] = "callback"]
                      /\ was_running' = [was_running EXCEPT ![d] = s_running]
                      /\ s_running' = FALSE
                      /\ cb_pc' = [cb_pc EXCEPT ![d] =
                                      IF s_running THEN "delay" ELSE "alloc"]
                      /\ sess_resumes' = [sess_resumes EXCEPT ![d] = 0]
                      /\ exit_path' = [exit_path EXCEPT ![d] = "none"]
                      /\ samples_recorded' =
                            [samples_recorded EXCEPT ![d] = 0]
                 ELSE UNCHANGED <<det_pc, was_running, s_running, cb_pc,
                                  sess_resumes, exit_path, samples_recorded>>
    /\ UNCHANGED <<cap_alive, cap_exiting, s_stt_task, ctl_pc, ctx_running,
                   task_handle>>
    /\ UNCHANGED nonWakeVars

\* wake_word_task sees running false: clears the task handle and deletes
\* itself.
DetExit(d) ==
    /\ det_pc[d] = "loop"
    /\ ~ctx_running
    /\ det_pc' = [det_pc EXCEPT ![d] = "none"]
    /\ task_handle' = 0
    /\ UNCHANGED <<s_running, cap_alive, cap_exiting, s_stt_task, ctl_pc,
                   ctx_running, audio_queue, speech_count, silence_count,
                   cb_pc, was_running, samples_recorded, ghostRun,
                   sess_resumes, exit_path>>
    /\ UNCHANGED nonWakeVars

\* on_wake_word_detected: the 500 ms delay after clearing s_running ends.
CbDelay(d) ==
    /\ cb_pc[d] = "delay"
    /\ CaptureSettled
    /\ cb_pc' = [cb_pc EXCEPT ![d] = "alloc"]
    /\ UNCHANGED <<s_running, cap_alive, cap_exiting, s_stt_task, ctl_pc,
                   ctx_running, task_handle, audio_queue, speech_count,
                   silence_count, det_pc, was_running, samples_recorded,
                   ghostRun, sess_resumes, exit_path>>
    /\ UNCHANGED nonWakeVars

\* on_wake_word_detected: the recording buffer from PSRAM, else from
\* internal RAM, else return.
CbAlloc(d) ==
    /\ cb_pc[d] = "alloc"
    /\ \E allocated \in BOOLEAN :
          IF allocated
             THEN /\ cb_pc' = [cb_pc EXCEPT ![d] = "record"]
                  /\ UNCHANGED exit_path
             ELSE /\ cb_pc' = [cb_pc EXCEPT ![d] = "return"]
                  /\ exit_path' = [exit_path EXCEPT ![d] = "alloc_fail"]
    /\ UNCHANGED <<s_running, cap_alive, cap_exiting, s_stt_task, ctl_pc,
                   ctx_running, task_handle, audio_queue, speech_count,
                   silence_count, det_pc, was_running, samples_recorded,
                   ghostRun, sess_resumes>>
    /\ UNCHANGED nonWakeVars

\* on_wake_word_detected: the recording loop, left when the buffer is full,
\* on a read error, on a failed chunk allocation or on the time limit.
CbRecord(d) ==
    /\ cb_pc[d] = "record"
    /\ \E n \in {0, 1} :
          /\ samples_recorded' = [samples_recorded EXCEPT ![d] = n]
          /\ IF was_running[d]
                THEN /\ cb_pc' = [cb_pc EXCEPT ![d] = "restart"]
                     /\ UNCHANGED exit_path
                ELSE IF n > 0
                THEN /\ cb_pc' = [cb_pc EXCEPT ![d] = "cmd"]
                     /\ UNCHANGED exit_path
                ELSE /\ cb_pc' = [cb_pc EXCEPT ![d] = "return"]
                     /\ exit_path' = [exit_path EXCEPT ![d] = "no_audio"]
    /\ UNCHANGED <<s_running, cap_alive, cap_exiting, s_stt_task, ctl_pc,
                   ctx_running, task_handle, audio_queue, speech_count,
                   silence_count, det_pc, was_running, ghostRun,
                   sess_resumes>>
    /\ UNCHANGED nonWakeVars

\* on_wake_word_detected: s_running = false, wake_word_manager_start(),
\* then the test of samples_recorded.
CbRestart(d) ==
    /\ cb_pc[d] = "restart"
    /\ StartCapture
    /\ sess_resumes' = [sess_resumes EXCEPT ![d] = @ + 1]
    /\ IF samples_recorded[d] > 0
          THEN /\ cb_pc' = [cb_pc EXCEPT ![d] = "cmd"]
               /\ UNCHANGED exit_path
          ELSE /\ cb_pc' = [cb_pc EXCEPT ![d] = "return"]
               /\ exit_path' = [exit_path EXCEPT ![d] = "no_audio"]
    /\ UNCHANGED <<cap_exiting, ctl_pc, audio_queue, speech_count,
                   silence_count, was_running, samples_recorded, ghostRun>>
    /\ UNCHANGED nonWakeVars

\* on_wake_word_detected: voice_assistant_process_command on the recording
\* (STT, LLM, TTS and playback), then free and return.
CbCommand(d) ==
    /\ cb_pc[d] = "cmd"
    /\ \E cmd_ret \in CommandOutcomes :
          exit_path' = [exit_path EXCEPT ![d] =
                          IF cmd_ret = "ESP_OK" THEN "ok" ELSE "cmd_fail"]
    /\ cb_pc' = [cb_pc EXCEPT ![d] = "return"]
    /\ UNCHANGED <<s_running, cap_alive, cap_exiting, s_stt_task, ctl_pc,
                   ctx_running, task_handle, audio_queue, speech_count,
                   silence_count, det_pc, was_running, samples_recorded,
                   ghostRun, sess_resumes>>
    /\ UNCHANGED nonWakeVars

\* wake_word_task after the callback returned: both counters to zero.
DetAfterCallback(d) ==
    /\ det_pc[d] = "callback"
    /\ cb_pc[d] = "return"
    /\ speech_count' = 0
    /\ silence_count' = 0
    /\ det_pc' = [det_pc EXCEPT ![d] = "loop"]
    /\ cb_pc' = [cb_pc EXCEPT ![d] = "-"]
    /\ was_running' = [was_running EXCEPT ![d] = FALSE]
    /\ samples_recorded' = [samples_recorded EXCEPT ![d] = 0]
    /\ sess_resumes' = [sess_resumes EXCEPT ![d] = 0]
    /\ exit_path' = [exit_path EXCEPT ![d] = "none"]
    /\ UNCHANGED <<s_running, cap_alive, cap_exiting, s_stt_task, ctl_pc,
                   ctx_running, task_handle, audio_queue, ghostRun>>
    /\ UNCHANGED nonWakeVars

\* app_main: the first wake_word_manager_start.
CtlStart ==
    /\ ctl_pc = "boot"
    /\ wake_word_manager_start
    /\ ctl_pc' = "idle"
    /\ UNCHANGED <<cap_exiting, audio_queue, speech_count, silence_count,
                   cb_pc, was_running, samples_recorded, ghostRun,
                   sess_resumes, exit_path>>
    /\ UNCHANGED nonWakeVars

\* wake_word_manager_pause called from another task (app_main before the
\* startup sound, voice_assistant_test_tts, the environmental report):
\* s_running cleared, then the 200 ms delay begins.
CtlPause ==
    /\ ctl_pc = "idle"
    /\ running_at_pause' = IF s_running THEN "running" ELSE "stopped"
    /\ IF s_running
          THEN /\ s_running' = FALSE
               /\ ctl_pc' = "pause_delay"
          ELSE /\ ctl_pc' = "paused"
               /\ UNCHANGED s_running
    /\ UNCHANGED <<cap_alive, cap_exiting, s_stt_task, ctx_running,
                   task_handle, audio_queue, speech_count, silence_count,
                   det_pc, cb_pc, was_running, samples_recorded, ghostRun,
                   sess_resumes, exit_path>>
    /\ UNCHANGED outsideWakeVars

\* wake_word_manager_pause after its delay: openwakeword_stop up to its
\* wait for the detection task.
CtlPauseStop ==
    /\ ctl_pc = "pause_delay"
    /\ CaptureSettled
    /\ IF ~ctx_running
          THEN /\ ctl_pc' = "paused"
               /\ UNCHANGED <<ctx_running, audio_queue, run_clean>>
          ELSE /\ ctx_running' = FALSE
               /\ run_clean' = FALSE
               /\ IF task_handle # 0
                     THEN /\ ctl_pc' = "stop_wait"
                          /\ UNCHANGED audio_queue
                     ELSE /\ ctl_pc' = "paused"
                          /\ audio_queue' = <<>>
    /\ UNCHANGED <<s_running, cap_alive, cap_exiting, s_stt_task,
                   task_handle, speech_count, silence_count, det_pc, cb_pc,
                   was_running, samples_recorded, runSpeech, runSilence,
                   sess_resumes, exit_path>>
    /\ UNCHANGED nonWakeVars

\* The wait of openwakeword_stop (10 x 50 ms) ends early when the task
\* cleared its handle; it runs out only when the task of the handle cannot
\* see running false within 500 ms: it is inside the wake callback, or
\* running was set again.
StopWaitOver ==
    \/ task_handle = 0
    \/ task_handle # 0 /\ det_pc[task_handle] = "callback"
    \/ ctx_running

\* openwakeword_stop after its wait: the handle is cleared if still set,
\* the queue is reset.
CtlStopDone ==
    /\ ctl_pc = "stop_wait"
    /\ StopWaitOver
    /\ task_handle' = 0
    /\ audio_queue' = <<>>
    /\ run_clean' = FALSE
    /\ ctl_pc' = "paused"
    /\ UNCHANGED <<s_running, cap_alive, cap_exiting, s_stt_task,
                   ctx_running, speech_count, silence_count, det_pc, cb_pc,
                   was_running, samples_recorded, runSpeech, runSilence,
                   sess_resumes, exit_path>>
    /\ UNCHANGED nonWakeVars

\* wake_word_manager_resume called by the task that paused.
CtlResume ==
    /\ ctl_pc = "paused"
    /\ wake_word_manager_resume
    /\ ctl_pc' = "idle"
    /\ running_at_pause' = "-"
    /\ UNCHANGED <<cap_exiting, audio_queue, speech_count, silence_count,
                   cb_pc, was_running, samples_recorded, ghostRun,
                   sess_resumes, exit_path>>
    /\ UNCHANGED outsideWakeVars

NextWake ==
    \/ CtlStart
    \/ CtlPause
    \/ CtlPauseStop
    \/ CtlStopDone
    \/ CtlResume
    \/ CapIterate
    \/ CapLeaveLoop
    \/ CapExit
    \/ \E d \in DetIds : DetProcess(d)
    \/ \E d \in DetIds : DetExit(d)
    \/ \E d \in DetIds : CbDelay(d)
    \/ \E d \in DetIds : CbAlloc(d)
    \/ \E d \in DetIds : CbRecord(d)
    \/ \E d \in DetIds : CbRestart(d)
    \/ \E d \in DetIds : CbCommand(d)
    \/ \E d \in DetIds : DetAfterCallback(d)

----------------------------------------------------------------------------
(***************************************************************************)
(* Voice command pipeline (voice_assistant.c) over the Gemini client       *)
(* (gemini_api.c) and the action manager (action_manager.c).  Volume and   *)
(* LED intensity are in tenths: 10 is 1.0f.                                *)
(***************************************************************************)

\* Bodies the STT endpoint can answer with, and a transport failure.
SttResponses ==
    {"transport_error", "unparsable", "no_results", "no_alternatives",
     "no_transcript", "transcript"}

\* gemini_stt: return value and the text written to text_out ("-" when
\* nothing is written).
gemini_stt(resp) ==
    CASE resp = "transport_error" -> [ret |-> "ESP_ERR_TIMEOUT", text |-> "-"]
      [] resp = "unparsable"      -> [ret |-> "ESP_FAIL", text |-> "-"]
      [] resp = "no_results"      -> [ret |-> "ESP_OK", text |-> ""]
      [] resp = "no_alternatives" -> [ret |-> "ESP_OK", text |-> ""]
      [] resp = "no_transcript"   -> [ret |-> "ESP_FAIL", text |-> "-"]
      [] resp = "transcript"      -> [ret |-> "ESP_OK", text |-> "text"]

\* Bodies the LLM endpoint can answer with, and a transport failure.
LlmResponses ==
    {"transport_error", "empty_body", "unparsable", "function_call", "text",
     "no_content"}

\* gemini_llm_with_functions: its return value for each kind of response.
gemini_llm_with_functions(resp) ==
    CASE resp = "transport_error" -> "ESP_ERR_TIMEOUT"
      [] resp = "empty_body"      -> "ESP_FAIL"
      [] resp = "unparsable"      -> "ESP_FAIL"
      [] resp = "function_call"   -> "ESP_ERR_NOT_FOUND"
      [] resp = "text"            -> "ESP_OK"
      [] resp = "no_content"      -> "ESP_FAIL"

\* gemini_llm: a functionCall part is not text, so it ends in ESP_FAIL.
gemini_llm(resp) ==
    CASE resp = "transport_error" -> "ESP_ERR_TIMEOUT"
      [] resp = "empty_body"      -> "ESP_FAIL"
      [] resp = "unparsable"      -> "ESP_FAIL"
      [] resp = "function_call"   -> "ESP_FAIL"
      [] resp = "text"            -> "ESP_OK"
      [] resp = "no_content"      -> "ESP_FAIL"

FunctionNames ==
    {"set_led_color", "set_led_pattern", "set_led_intensity", "set_volume",
     "pause_device", "resume_device", "other"}

\* The arguments string of a function call: not JSON, JSON without the
\* argument, or the argument below, inside or above the range 0.0 .. 1.0.
ArgKinds == {"unparsable", "missing", "below", "inside", "above"}

ArgValue(a) ==
    CASE a = "below"  -> -5
      [] a = "inside" -> 5
      [] a = "above"  -> 15

NoFunctionCall == [is_function_call |-> FALSE, name |-> "", args |-> ""]

\* Float values 0.0 .. 1.0 are kept in tenths.
Clamp01_unclamped(v) == v

\* The clamp of set_audio_volume and ACTION_SET_LED_INTENSITY.
Clamp01(v) == IF v < 0 THEN 0 ELSE IF v > 10 THEN 10 ELSE v

\* The strings an LED action carries in pattern_data: the empty string,
\* text that is not JSON, {"color":[255,255,255]}, {"pattern":"clear"},
\* {"pattern":"rainbow"}, and JSON with neither a colour array nor a known
\* pattern name.
PatternData == {"", "garbage", "color", "clear", "rainbow", "other"}

\* The channel value of the colour in PatternData.
ColorChannel == 255

\* apply_led_intensity: the channel value scaled by current_led_intensity
\* and truncated to uint8_t.
apply_led_intensity(value, dev) ==
    ((value * dev.current_led_intensity) \div 10) % 256

\* The strip with every pixel off (led_strip_clear).
Off == [kind |-> "solid", level |-> 0]

\* The strip after every pixel was set from a pattern whose brightest
\* channel is level: all pixels are zero when level is zero.
Shown(kind, level) == IF level = 0 THEN Off ELSE [kind |-> kind, level |-> level]

\* The state action_manager.c keeps, as one record.
AmState ==
    [dev |-> s_device_state, strip |-> s_led_strip, pixels |-> pixels,
     pattern |-> s_paused_led_pattern, has |-> s_has_paused_led_state]

\* execute_led_pattern: return value and state.
execute_led_pattern(pattern_json, st) ==
    IF st.strip = "NULL"
       THEN [ret |-> "ESP_ERR_INVALID_STATE", st |-> st]
    ELSE IF pattern_json \in {"", "garbage"}
       THEN [ret |-> "ESP_ERR_INVALID_ARG", st |-> st]
    ELSE IF pattern_json = "color"
       THEN [ret |-> "ESP_OK",
             st |-> [st EXCEPT !.pixels =
                        Shown("solid",
                              apply_led_intensity(ColorChannel, st.dev))]]
    ELSE IF pattern_json = "clear"
       THEN [ret |-> "ESP_OK", st |-> [st EXCEPT !.pixels = Off]]
    ELSE IF pattern_json = "rainbow"
       THEN [ret |-> "ESP_OK",
             st |-> [st EXCEPT !.pixels =
                        Shown("rainbow",
                              apply_led_intensity(ColorChannel, st.dev))]]
    ELSE [ret |-> "ESP_OK", st |-> st]

\* set_audio_volume.
set_audio_volume(volume, st) ==
    [ret |-> "ESP_OK",
     st |-> [st EXCEPT !.dev.current_volume = Clamp01(volume)]]

\* The values of action_type_t; "ACTION_OUT_OF_RANGE" is any value beyond
\* the enumerators.
ActionTypes ==
    {"ACTION_SONG_CHANGE", "ACTION_SPEECH", "ACTION_LED",
     "ACTION_SET_LED_INTENSITY", "ACTION_SET_VOLUME", "ACTION_PAUSE",
     "ACTION_PLAY", "ACTION_ROUTINE_END", "ACTION_UNKNOWN",
     "ACTION_OUT_OF_RANGE"}

\* An action_t: the type, the float of the union (intensity or volume, in
\* tenths) and the pattern_data string.
Action(type, value, pattern_data) ==
    [type |-> type, value |-> value, pattern_data |-> pattern_data]

\* ACTION_PAUSE of action_manager_execute.
execute_pause(st) ==
    IF st.dev.paused THEN [ret |-> "ESP_OK", st |-> st]
    ELSE LET led == IF st.strip # "NULL"
                       THEN [st EXCEPT !.pattern = "clear",
                                       !.has = TRUE,
                                       !.pixels = Off]
                       ELSE st
         IN  [ret |-> "ESP_OK",
              st |-> [led EXCEPT !.dev.paused = TRUE,
                                 !.dev.audio_playing = FALSE]]

\* ACTION_PLAY of action_manager_execute.
execute_play(st) ==
    IF ~st.dev.paused THEN [ret |-> "ESP_OK", st |-> st]
    ELSE LET led == IF st.has /\ st.strip # "NULL"
                       THEN [execute_led_pattern(st.pattern, st).st
                                EXCEPT !.has = FALSE]
                       ELSE st
         IN  [ret |-> "ESP_OK", st |-> [led EXCEPT !.dev.paused = FALSE]]

\* action_manager_execute: return value and state.
action_manager_execute(action, st) ==
    CASE action.type \in {"ACTION_SONG_CHANGE", "ACTION_SPEECH"} ->
            [ret |-> "ESP_OK", st |-> st]
      [] action.type = "ACTION_LED" ->
            execute_led_pattern(action.pattern_data, st)
      [] action.type = "ACTION_SET_LED_INTENSITY" ->
            [ret |-> "ESP_OK",
             st |-> [st EXCEPT !.dev.current_led_intensity =
                                   Clamp01(action.value)]]
      [] action.type = "ACTION_SET_VOLUME" ->
            set_audio_volume(action.value, st)
      [] action.type = "ACTION_PAUSE" -> execute_pause(st)
      [] action.type = "ACTION_PLAY" -> execute_play(st)
      [] action.type = "ACTION_ROUTINE_END" ->
            [ret |-> "ESP_OK",
             st |-> IF st.strip # "NULL" THEN [st EXCEPT !.pixels = Off]
                    ELSE st]
      [] OTHER -> [ret |-> "ESP_ERR_INVALID_ARG", st |-> st]

\* The action a function name maps to.
ActionOf(name) ==
    CASE name = "set_led_color"     -> "ACTION_LED"
      [] name = "set_led_pattern"   -> "ACTION_LED"
      [] name = "set_led_intensity" -> "ACTION_SET_LED_INTENSITY"
      [] name = "set_volume"        -> "ACTION_SET_VOLUME"
      [] name = "pause_device"      -> "ACTION_PAUSE"
      [] name = "resume_device"     -> "ACTION_PLAY"

\* The pattern_data execute_function_call builds: the colour for
\* set_led_color, and for set_led_pattern the pattern name the argument
\* gives (the three kinds of present argument stand for "clear", "rainbow"
\* and any other name).
PatternOf(name, a) ==
    IF name = "set_led_color" THEN "color"
    ELSE IF name = "set_led_pattern"
       THEN CASE a = "below"  -> "clear"
              [] a = "inside" -> "rainbow"
              [] a = "above"  -> "other"
    ELSE ""

\* execute_function_call: return value, state, and whether
\* action_manager_execute was called.
execute_function_call(call, st) ==
    IF call.args = "unparsable"
       THEN [ret |-> "ESP_ERR_INVALID_ARG", st |-> st, executed |-> FALSE]
    ELSE IF call.name = "other"
       THEN [ret |-> "ESP_ERR_NOT_FOUND", st |-> st, executed |-> FALSE]
    ELSE IF call.name \in {"pause_device", "resume_device"}
       THEN LET r == action_manager_execute(
                        Action(ActionOf(call.name), 0, ""), st)
            IN  [ret |-> r.ret, st |-> r.st, executed |-> TRUE]
    ELSE IF call.args = "missing"
       THEN [ret |-> "ESP_OK", st |-> st, executed |-> FALSE]
    ELSE LET r == action_manager_execute(
                     Action(ActionOf(call.name), ArgValue(call.args),
                            PatternOf(call.name, call.args)), st)
         IN  [ret |-> r.ret, st |-> r.st, executed |-> TRUE]

\* State after action_manager_init, with no voice command in progress.
VoiceBoot ==
    /\ vc_pc = "idle"
    /\ vc_ret = "ESP_OK"
    /\ transcribed_text = "-"
    /\ llm_response = ""
    /\ function_call = NoFunctionCall
    /\ s_device_state = [paused |-> FALSE, current_volume |-> 10,
                         current_led_intensity |-> 3, audio_playing |-> FALSE]
    /\ dev_at_start = s_device_state
    /\ llm_first = "-"
    /\ llm_confirm = "-"
    /\ n_llm = 0
    /\ n_tts = 0
    /\ n_play = 0
    /\ n_action = 0

\* Return values of a call that failed in the transport or in parsing.
FailureCodes == {"ESP_FAIL", "ESP_ERR_TIMEOUT", "ESP_ERR_NO_MEM"}

\* A recording is handed to process_voice_command.
VcStart ==
    /\ vc_pc \in {"idle", "done"}
    /\ vc_pc' = "stt"
    /\ vc_ret' = "ESP_OK"
    /\ transcribed_text' = "-"
    /\ llm_response' = ""
    /\ function_call' = NoFunctionCall
    /\ dev_at_start' = s_device_state
    /\ llm_first' = "-"
    /\ llm_confirm' = "-"
    /\ n_llm' = 0
    /\ n_tts' = 0
    /\ n_play' = 0
    /\ n_action' = 0
    /\ UNCHANGED s_device_state
    /\ UNCHANGED nonVoiceVars

\* Step 1: gemini_stt; any return other than ESP_OK ends the command.
VcStt ==
    /\ vc_pc = "stt"
    /\ \E resp \in SttResponses :
          LET r == gemini_stt(resp)
          IN  IF r.ret # "ESP_OK"
                 THEN /\ vc_pc' = "done"
                      /\ vc_ret' = r.ret
                      /\ UNCHANGED transcribed_text
                 ELSE /\ vc_pc' = "llm"
                      /\ transcribed_text' = r.text
                      /\ UNCHANGED vc_ret
    /\ UNCHANGED <<llm_response, function_call, s_device_state, dev_at_start,
                   llm_first, llm_confirm, n_llm, n_tts, n_play, n_action>>
    /\ UNCHANGED nonVoiceVars

\* The test that ends the command after gemini_llm_with_functions.
LlmFailed_TransportOnly(ret) == ret = "ESP_ERR_TIMEOUT"

LlmFailed(ret) == ret # "ESP_OK"

\* Step 2: gemini_llm_with_functions on the transcript.
VcLlm ==
    /\ vc_pc = "llm"
    /\ n_llm' = n_llm + 1
    /\ \E resp \in LlmResponses, name \in FunctionNames, args \in ArgKinds :
          LET ret == gemini_llm_with_functions(resp)
          IN  /\ llm_first' = resp
              /\ IF resp = "function_call"
                    THEN function_call' = [is_function_call |-> TRUE,
                                           name |-> name, args |-> args]
                    ELSE /\ name = "other"
                         /\ args = "missing"
                         /\ UNCHANGED function_call
              /\ IF ret = "ESP_ERR_NOT_FOUND" /\ resp = "function_call"
                    THEN /\ vc_pc' = "action"
                         /\ UNCHANGED <<vc_ret, llm_response>>
                    ELSE IF LlmFailed(ret)
                    THEN /\ vc_pc' = "done"
                         /\ vc_ret' = ret
                         /\ UNCHANGED llm_response
                    ELSE /\ vc_pc' = "tts"
                         /\ llm_response' = IF resp = "text" THEN "reply"
                                             ELSE llm_response
                         /\ UNCHANGED vc_ret
    /\ UNCHANGED <<transcribed_text, s_device_state, dev_at_start,
                   llm_confirm, n_tts, n_play, n_action>>
    /\ UNCHANGED nonVoiceVars

\* execute_function_call, then the reply for a failed action.
VcAction ==
    /\ vc_pc = "action"
    /\ LET r == execute_function_call(function_call, AmState)
       IN  /\ s_device_state' = r.st.dev
           /\ pixels' = r.st.pixels
           /\ s_paused_led_pattern' = r.st.pattern
           /\ s_has_paused_led_state' = r.st.has
           /\ n_action' = n_action + (IF r.executed THEN 1 ELSE 0)
           /\ IF r.ret = "ESP_OK"
                 THEN /\ vc_pc' = "confirm"
                      /\ UNCHANGED llm_response
                 ELSE /\ vc_pc' = "tts"
                      /\ llm_response' = "I tried to ... but encountered an error."
    /\ UNCHANGED <<vc_ret, transcribed_text, function_call, dev_at_start,
                   llm_first, llm_confirm, n_llm, n_tts, n_play, s_led_strip>>
    /\ UNCHANGED nonVoiceActionVars

\* gemini_llm for the confirmation text, "Done." when it fails.
VcConfirm ==
    /\ vc_pc = "confirm"
    /\ n_llm' = n_llm + 1
    /\ \E resp \in LlmResponses :
          /\ llm_confirm' = resp
          /\ llm_response' = IF gemini_llm(resp) # "ESP_OK" THEN "Done."
                              ELSE "confirmation"
    /\ vc_pc' = "tts"
    /\ UNCHANGED <<vc_ret, transcribed_text, function_call, s_device_state,
                   dev_at_start, llm_first, n_tts, n_play, n_action>>
    /\ UNCHANGED nonVoiceVars

\* Step 3: the TTS buffer, then gemini_tts on llm_response.
VcTts ==
    /\ vc_pc = "tts"
    /\ \E allocated \in BOOLEAN, ret \in FailureCodes \cup {"ESP_OK"} :
          IF ~allocated
             THEN /\ ret = "ESP_ERR_NO_MEM"
                  /\ vc_pc' = "done"
                  /\ vc_ret' = "ESP_ERR_NO_MEM"
                  /\ UNCHANGED n_tts
             ELSE /\ n_tts' = n_tts + 1
                  /\ IF ret # "ESP_OK"
                        THEN /\ vc_pc' = "done"
                             /\ vc_ret' = ret
                        ELSE /\ vc_pc' = "play"
                             /\ UNCHANGED vc_ret
    /\ UNCHANGED <<transcribed_text, llm_response, function_call,
                   s_device_state, dev_at_start, llm_first, llm_confirm,
                   n_llm, n_play, n_action>>
    /\ UNCHANGED nonVoiceVars

\* Step 4: audio_player_submit_pcm; its failure is only logged.
VcPlay ==
    /\ vc_pc = "play"
    /\ n_play' = n_play + 1
    /\ vc_pc' = "done"
    /\ vc_ret' = "ESP_OK"
    /\ UNCHANGED <<transcribed_text, llm_response, function_call,
                   s_device_state, dev_at_start, llm_first, llm_confirm,
                   n_llm, n_tts, n_action>>
    /\ UNCHANGED nonVoiceVars

NextVoice ==
    \/ VcStart
    \/ VcStt
    \/ VcLlm
    \/ VcAction
    \/ VcConfirm
    \/ VcTts
    \/ VcPlay

----------------------------------------------------------------------------
(***************************************************************************)
(* The callers of the action manager: the voice session                    *)
(* (voice_assistant.c), the dashboard handler api_action_handler           *)
(* (webserver.c, on the HTTP server task) and the BLE command callback     *)
(* ble_device_command_cb (app_main.c, on the BLE host task).  A call is    *)
(* entered and later takes effect and returns; action_manager.c has no     *)
(* lock and no queue, so nothing orders the calls of different tasks.      *)
(*                                                                         *)
(* Left out: action_manager_reset and action_manager_deinit, reached only  *)
(* when the voice assistant fails to start or is shut down.                *)
(***************************************************************************)

AmTasks == {"voice", "httpd", "ble"}

\* Tasks that call action_manager_execute_json.
JsonTasks == {"httpd", "ble"}

\* The "Action" strings parse_action_type knows.
KnownTags ==
    {"SongChange", "Speech", "LED", "SetLEDIntensity", "SetVolume", "Pause",
     "Play", "RoutineEnd"}

\* "Action" strings a payload can carry: the known ones, a known one in
\* the wrong case and a name that does not exist.
ActionTags == KnownTags \cup {"pause", "Reboot"}

\* parse_action_type.
parse_action_type_lenient(type_str) ==
    CASE type_str = "SongChange"      -> "ACTION_SONG_CHANGE"
      [] type_str = "Speech"          -> "ACTION_SPEECH"
      [] type_str = "LED"             -> "ACTION_LED"
      [] type_str = "SetLEDIntensity" -> "ACTION_SET_LED_INTENSITY"
      [] type_str = "SetVolume"       -> "ACTION_SET_VOLUME"
      [] type_str = "Pause"           -> "ACTION_PAUSE"
      [] type_str = "Play"            -> "ACTION_PLAY"
      [] OTHER                        -> "ACTION_ROUTINE_END"

parse_action_type(type_str) ==
    CASE type_str = "SongChange"      -> "ACTION_SONG_CHANGE"
      [] type_str = "Speech"          -> "ACTION_SPEECH"
      [] type_str = "LED"             -> "ACTION_LED"
      [] type_str = "SetLEDIntensity" -> "ACTION_SET_LED_INTENSITY"
      [] type_str = "SetVolume"       -> "ACTION_SET_VOLUME"
      [] type_str = "Pause"           -> "ACTION_PAUSE"
      [] type_str = "Play"            -> "ACTION_PLAY"
      [] type_str = "RoutineEnd"      -> "ACTION_ROUTINE_END"
      [] OTHER                        -> "ACTION_UNKNOWN"

\* The "Data" member of a payload: absent, or carrying the number (below,
\* inside or above 0.0 .. 1.0) or the LED pattern object the action reads.
NumData == {"below", "inside", "above"}

LedData == {"color", "clear", "rainbow", "other"}

\* The payloads of action_manager_execute_json: text that is not JSON,
\* JSON without a string "Action", and envelopes with an "Action" string.
Envelope(form, tag, data) == [form |-> form, tag |-> tag, data |-> data]

Envelopes ==
    {Envelope("unparsable", "", "absent"), Envelope("no_action", "", "absent")}
    \cup {Envelope("ok", tag, "absent") : tag \in ActionTags}
    \cup {Envelope("ok", tag, d) :
              tag \in {"SetVolume", "SetLEDIntensity"}, d \in NumData}
    \cup {Envelope("ok", "LED", d) : d \in LedData}

\* The action_t action_manager_execute_json fills in: it starts zeroed, and
\* the member the type reads is taken from "Data" when it is there.
ActionFromJson(env) ==
    LET type == parse_action_type(env.tag)
    IN  Action(type,
               IF type \in {"ACTION_SET_VOLUME", "ACTION_SET_LED_INTENSITY"}
                     /\ env.data \in NumData
                  THEN ArgValue(env.data) ELSE 0,
               IF type = "ACTION_LED" /\ env.data \in LedData
                  THEN env.data ELSE "")

\* action_manager_execute_json: return value and state.
action_manager_execute_json(env, st) ==
    IF env.form # "ok"
       THEN [ret |-> "ESP_ERR_INVALID_ARG", st |-> st]
       ELSE action_manager_execute(ActionFromJson(env), st)

\* The action_t values a caller of action_manager_execute can pass.
TypedActions ==
    {Action(type, v, p) :
        type \in ActionTypes, v \in {ArgValue(a) : a \in NumData},
        p \in PatternData}

\* State after app_main has created the strip, cleared it, and called
\* action_manager_init and action_manager_set_led_strip.
AmBoot ==
    /\ s_led_strip = "STRIP"
    /\ pixels = Off
    /\ s_paused_led_pattern = ""
    /\ s_has_paused_led_state = FALSE
    /\ am_pc = [t \in AmTasks |-> "idle"]
    /\ am_ret = "ESP_OK"
    /\ am_unknown = FALSE
    /\ since_pause = "none"
    /\ pixels_at_pause = Off

\* A task enters action_manager_execute or action_manager_execute_json.
AmEnter(t) ==
    /\ am_pc[t] = "idle"
    /\ am_pc' = [am_pc EXCEPT ![t] = "executing"]
    /\ UNCHANGED <<am_ret, am_unknown, since_pause, pixels_at_pause>>
    /\ UNCHANGED <<tlsVars, wakeVars, voiceVars, timeVars, ledVars, sensVars, playVars, extVars>>

\* The call of task t takes effect with result r and returns.
AmReturn(t, r, unknown) ==
    /\ am_pc[t] = "executing"
    /\ am_pc' = [am_pc EXCEPT ![t] = "idle"]
    /\ am_ret' = r.ret
    /\ am_unknown' = unknown
    /\ s_device_state' = r.st.dev
    /\ pixels' = r.st.pixels
    /\ s_paused_led_pattern' = r.st.pattern
    /\ s_has_paused_led_state' = r.st.has
    /\ IF ~s_device_state.paused /\ r.st.dev.paused
          THEN since_pause' = "paused" /\ pixels_at_pause' = pixels
       ELSE IF since_pause = "paused" /\ ~r.st.dev.paused
          THEN since_pause' = "resumed" /\ UNCHANGED pixels_at_pause
       ELSE since_pause' = "none" /\ pixels_at_pause' = Off
    /\ UNCHANGED <<vc_pc, vc_ret, transcribed_text, llm_response,
                   function_call, dev_at_start, llm_first, llm_confirm,
                   n_llm, n_tts, n_play, n_action, s_led_strip>>
    /\ UNCHANGED <<tlsVars, wakeVars, timeVars, sensVars, playVars, extVars>>

\* The voice session's action_manager_execute.
AmExecute(t) ==
    /\ t \notin JsonTasks
    /\ \E action \in TypedActions :
          AmReturn(t, action_manager_execute(action, AmState),
                   action.type \in {"ACTION_UNKNOWN", "ACTION_OUT_OF_RANGE"})

\* api_action_handler and ble_device_command_cb: action_manager_execute_json
\* on the received payload.
AmExecuteJson(t) ==
    /\ t \in JsonTasks
    /\ \E env \in Envelopes :
          AmReturn(t, action_manager_execute_json(env, AmState),
                   env.form = "ok" /\ env.tag \notin KnownTags)

NextAction ==
    \/ \E t \in AmTasks : AmEnter(t)
    \/ \E t \in AmTasks : AmExecute(t)
    \/ \E t \in AmTasks : AmExecuteJson(t)

----------------------------------------------------------------------------
(***************************************************************************)
(* Sensor manager (sensor_manager.c): the registry, start and stop, the    *)
(* publisher task and its collect-and-publish cycle.  The API is used by   *)
(* one task (sensor_integration.c).  Time is counted in steps of a         *)
(* fraction of the interval; a cycle takes at most one such step, the      *)
(* delay of the publisher task ends when one interval has passed since     *)
(* last_wake.                                                              *)
(*                                                                         *)
(* Left out: the observer callback, which only reads; the HTTPS session    *)
(* of the cycle, modelled under SpecTls; a second publisher task, which    *)
(* sensor_manager_start creates when it is called again before the first   *)
(* one has set s_running.  Registering beyond MaxSensors is disabled       *)
(* instead of failing.                                                     *)
(***************************************************************************)

\* Sensors the model registers at most (the registry holds 8).
MaxSensors == 2

SENSOR_MANAGER_MAX_SENSORS == 8

\* The interval sensor_integration_init configures.
s_publish_interval_ms == 60000

\* Steps of time in one interval.
StepsPerInterval == 2

\* The step of time, in milliseconds.  A cycle takes at most one step,
\* which is longer than the 5 s timeout of the publisher's HTTP client.
SmStepMs == s_publish_interval_ms \div StepsPerInterval

\* The publisher task, by its task name.
PubIds == {"sensor_manager"}

\* The names the transformation knows, and one it does not.
SensorNames ==
    {"sht4x", "cm1106s", "pm2012", "tsl2561", "as7341", "veml7700", "other"}

\* Arguments of sensor_manager_register: a NULL pointer, an empty name, a
\* NULL callback, or a well-formed sensor with one of the names.
RegisterArgs == {"NULL", "no_name", "no_callback"} \cup SensorNames

\* The keys the transformation reads from the record of a sensor.
ReadKeys(name) ==
    CASE name = "sht4x"    -> {"temperature_c", "humidity_rh"}
      [] name = "cm1106s"  -> {"co2_ppm"}
      [] name = "pm2012"   -> {"pm1_0_ug_m3", "pm2_5_ug_m3", "pm10_ug_m3",
                               "voc_index"}
      [] name = "tsl2561"  -> {"light_lux"}
      [] name = "as7341"   -> {"uv_index"}
      [] name = "veml7700" -> {"ambient_lux"}
      [] OTHER             -> {}

\* Every key a callback may populate: the keys read for some sensor, a
\* canonical key under its own name, and a key nothing knows.
RawKeys ==
    UNION {ReadKeys(n) : n \in SensorNames} \cup {"temperature", "junk"}

\* A member of a per-sensor record: its key and whether it is a number.
Item(key, number) == [key |-> key, number |-> number]

\* What a callback can do with its record: fail, leave it empty, populate
\* the keys read for its sensor (as numbers or as strings), or populate
\* every key.
CallbackResults(name) ==
    { [ok |-> FALSE, items |-> {Item(k, TRUE) : k \in ReadKeys(name)}],
      [ok |-> TRUE,  items |-> {}],
      [ok |-> TRUE,  items |-> {Item(k, TRUE) : k \in ReadKeys(name)}],
      [ok |-> TRUE,  items |-> {Item(k, FALSE) : k \in ReadKeys(name)}],
      [ok |-> TRUE,  items |-> {Item(k, TRUE) : k \in RawKeys}] }

\* The results of one pass over the registry: one result per sensor.
RECURSIVE AllResults(_)
AllResults(names) ==
    IF names = <<>> THEN {<<>>}
    ELSE {<<r>> \o rest : r \in CallbackResults(Head(names)),
                          rest \in AllResults(Tail(names))}

\* The canonical key added for a key that was read.
CanonicalOf_passthrough(key) == key

CanonicalOf(key) ==
    CASE key = "temperature_c" -> "temperature"
      [] key = "humidity_rh"   -> "humidity"
      [] key = "co2_ppm"       -> "co2"
      [] key = "pm1_0_ug_m3"   -> "pm1_0"
      [] key = "pm2_5_ug_m3"   -> "pm2_5"
      [] key = "pm10_ug_m3"    -> "pm10"
      [] key = "voc_index"     -> "voc"
      [] key = "light_lux"     -> "light"
      [] key = "uv_index"      -> "uv_index"
      [] key = "ambient_lux"   -> "ambient_lux"

\* The keys one sensor adds to sensors_obj: for a callback that returned
\* true with a non-empty record, the canonical key of every key read for
\* the sensor's name that is there as a number.
Transform(name, result) ==
    IF result.ok /\ result.items # {}
       THEN {CanonicalOf(k) :
                k \in {r \in ReadKeys(name) : Item(r, TRUE) \in result.items}}
       ELSE {}

\* How a cycle can end once there is data: the payload cannot be
\* serialised, the client cannot be created, the transport fails, the
\* server answers with an error status, or with success.
PublishOutcomes ==
    {"serialise_failed", "client_failed", "transport_failed", "http_error",
     "published"}

\* The ends of a cycle after which nothing was delivered.
FailedOutcomes ==
    {"alloc_failed", "serialise_failed", "client_failed", "transport_failed",
     "http_error"}

SensorBoot ==
    /\ s_sensors = <<>>
    /\ s_should_run = FALSE
    /\ sm_running = FALSE
    /\ sm_pc = [p \in PubIds |-> "none"]
    /\ sm_elapsed = [p \in PubIds |-> 0]
    /\ sm_outcome = [p \in PubIds |-> "none"]
    /\ sm_after_failure = [p \in PubIds |-> FALSE]
    /\ sm_packet = {}
    /\ sm_foreign = FALSE
    /\ sm_caller = "idle"
    /\ sm_ret = "ESP_OK"
    /\ sm_started = FALSE

nonSensVars ==
    <<tlsVars, wakeVars, voiceVars, timeVars, ledVars, callVars, playVars, extVars>>

\* sensor_manager_register.
sensor_manager_register(sensor) ==
    /\ sm_caller = "idle"
    /\ Len(s_sensors) < MaxSensors
    /\ IF sensor \in {"NULL", "no_name", "no_callback"}
          THEN sm_ret' = "ESP_ERR_INVALID_ARG" /\ UNCHANGED s_sensors
       ELSE IF sm_running
          THEN sm_ret' = "ESP_ERR_INVALID_STATE" /\ UNCHANGED s_sensors
       ELSE IF ~(Len(s_sensors) < SENSOR_MANAGER_MAX_SENSORS)
          THEN sm_ret' = "ESP_ERR_NO_MEM" /\ UNCHANGED s_sensors
       ELSE sm_ret' = "ESP_OK" /\ s_sensors' = Append(s_sensors, sensor)
    /\ UNCHANGED <<s_should_run, sm_running, sm_pc, sm_elapsed, sm_outcome, sm_after_failure,
                   sm_packet, sm_foreign, sm_caller, sm_started>>
    /\ UNCHANGED nonSensVars

\* sensor_manager_start: the task is created, or xTaskCreate fails.
sensor_manager_start ==
    /\ sm_caller = "idle"
    /\ IF Len(s_sensors) = 0
          THEN /\ sm_ret' = "ESP_ERR_INVALID_STATE"
               /\ UNCHANGED <<s_should_run, sm_pc, sm_elapsed, sm_started>>
       ELSE IF sm_running
          THEN /\ sm_ret' = "ESP_OK"
               /\ sm_started' = TRUE
               /\ UNCHANGED <<s_should_run, sm_pc, sm_elapsed>>
       ELSE /\ \E p \in PubIds : sm_pc[p] = "none"
            /\ s_should_run' = TRUE
            /\ \/ /\ sm_pc' = [sm_pc EXCEPT
                                 ![CHOOSE p \in PubIds : sm_pc[p] = "none"] =
                                     "created"]
                  /\ sm_ret' = "ESP_OK"
                  /\ sm_started' = TRUE
                  /\ UNCHANGED sm_elapsed
               \/ /\ sm_ret' = "ESP_ERR_NO_MEM"
                  /\ UNCHANGED <<sm_pc, sm_elapsed, sm_started>>
    /\ UNCHANGED <<s_sensors, sm_running, sm_outcome, sm_after_failure, sm_packet, sm_foreign,
                   sm_caller>>
    /\ UNCHANGED nonSensVars

\* sensor_manager_stop up to its wait loop.
sensor_manager_stop ==
    /\ sm_caller = "idle"
    /\ IF ~sm_running
          THEN /\ sm_ret' = "ESP_OK"
               /\ sm_started' = FALSE
               /\ UNCHANGED <<s_should_run, sm_caller>>
          ELSE /\ s_should_run' = FALSE
               /\ sm_caller' = "stopping"
               /\ UNCHANGED <<sm_ret, sm_started>>
    /\ UNCHANGED <<s_sensors, sm_running, sm_pc, sm_elapsed, sm_outcome, sm_after_failure,
                   sm_packet, sm_foreign>>
    /\ UNCHANGED nonSensVars

\* The wait loop of sensor_manager_stop sees s_running false and returns.
SmStopReturns ==
    /\ sm_caller = "stopping"
    /\ ~sm_running
    /\ sm_caller' = "idle"
    /\ sm_ret' = "ESP_OK"
    /\ sm_started' = FALSE
    /\ UNCHANGED <<s_sensors, s_should_run, sm_running, sm_pc, sm_elapsed,
                   sm_outcome, sm_after_failure, sm_packet, sm_foreign>>
    /\ UNCHANGED nonSensVars

\* sensor_manager_task up to its loop: last_wake is now, s_running is set.
SmTaskBegins(p) ==
    /\ sm_pc[p] = "created"
    /\ sm_running' = TRUE
    /\ sm_elapsed' = [sm_elapsed EXCEPT ![p] = 0]
    /\ sm_pc' = [sm_pc EXCEPT ![p] = "loop"]
    /\ UNCHANGED <<s_sensors, s_should_run, sm_outcome, sm_after_failure, sm_packet,
                   sm_foreign, sm_caller, sm_ret, sm_started>>
    /\ UNCHANGED nonSensVars

\* The loop condition: a cycle starts, or the task clears s_running and
\* deletes itself.
SmLoop_until_failure(p) ==
    /\ sm_pc[p] = "loop"
    /\ IF s_should_run /\ sm_outcome[p] \notin FailedOutcomes
          THEN /\ sm_pc' = [sm_pc EXCEPT ![p] = "collect"]
               /\ sm_after_failure' =
                     [sm_after_failure EXCEPT
                         ![p] = sm_outcome[p] \in FailedOutcomes]
               /\ UNCHANGED <<sm_running, sm_elapsed>>
          ELSE /\ sm_pc' = [sm_pc EXCEPT ![p] = "none"]
               /\ sm_running' = FALSE
               /\ sm_elapsed' = [sm_elapsed EXCEPT ![p] = 0]
               /\ sm_after_failure' = [sm_after_failure EXCEPT ![p] = FALSE]
    /\ sm_outcome' = [sm_outcome EXCEPT ![p] = "none"]
    /\ sm_packet' = {}
    /\ sm_foreign' = FALSE
    /\ UNCHANGED <<s_sensors, s_should_run, sm_caller, sm_ret, sm_started>>
    /\ UNCHANGED nonSensVars

SmLoop(p) ==
    /\ sm_pc[p] = "loop"
    /\ IF s_should_run
          THEN /\ sm_pc' = [sm_pc EXCEPT ![p] = "collect"]
               /\ sm_after_failure' =
                     [sm_after_failure EXCEPT
                         ![p] = sm_outcome[p] \in FailedOutcomes]
               /\ UNCHANGED <<sm_running, sm_elapsed>>
          ELSE /\ sm_pc' = [sm_pc EXCEPT ![p] = "none"]
               /\ sm_running' = FALSE
               /\ sm_elapsed' = [sm_elapsed EXCEPT ![p] = 0]
               /\ sm_after_failure' = [sm_after_failure EXCEPT ![p] = FALSE]
    /\ sm_outcome' = [sm_outcome EXCEPT ![p] = "none"]
    /\ sm_packet' = {}
    /\ sm_foreign' = FALSE
    /\ UNCHANGED <<s_sensors, s_should_run, sm_caller, sm_ret, sm_started>>
    /\ UNCHANGED nonSensVars

\* sensor_manager_collect_and_publish.
sensor_manager_collect_and_publish(p) ==
    /\ sm_pc[p] = "collect"
    /\ sm_pc' = [sm_pc EXCEPT ![p] = "delay"]
    /\ \/ /\ Len(s_sensors) = 0
          /\ sm_outcome' = [sm_outcome EXCEPT ![p] = "no_sensors"]
          /\ UNCHANGED <<sm_packet, sm_foreign>>
       \/ /\ Len(s_sensors) > 0
          /\ sm_outcome' = [sm_outcome EXCEPT ![p] = "alloc_failed"]
          /\ UNCHANGED <<sm_packet, sm_foreign>>
       \/ /\ Len(s_sensors) > 0
          /\ \E results \in AllResults(s_sensors) :
                LET sensors_obj ==
                          UNION {Transform(s_sensors[i], results[i]) :
                                    i \in 1..Len(s_sensors)}
                       foreign ==
                          \E i \in 1..Len(s_sensors) :
                             /\ results[i].ok
                             /\ \E it \in results[i].items :
                                   it.key \notin ReadKeys(s_sensors[i])
                   IN  IF sensors_obj = {}
                          THEN /\ sm_outcome' =
                                     [sm_outcome EXCEPT ![p] = "no_data"]
                               /\ UNCHANGED <<sm_packet, sm_foreign>>
                          ELSE /\ \E o \in PublishOutcomes :
                                     sm_outcome' =
                                        [sm_outcome EXCEPT ![p] = o]
                               /\ sm_packet' = sensors_obj
                               /\ sm_foreign' = foreign
    /\ UNCHANGED <<s_sensors, s_should_run, sm_running, sm_elapsed,
                   sm_after_failure, sm_caller, sm_ret, sm_started>>
    /\ UNCHANGED nonSensVars

\* vTaskDelayUntil returns: one interval has passed since last_wake, and
\* last_wake moves on by one interval.
SmDelayEnds(p) ==
    /\ sm_pc[p] = "delay"
    /\ sm_elapsed[p] >= s_publish_interval_ms
    /\ sm_elapsed' = [sm_elapsed EXCEPT ![p] = @ - s_publish_interval_ms]
    /\ sm_pc' = [sm_pc EXCEPT ![p] = "loop"]
    /\ UNCHANGED <<s_sensors, s_should_run, sm_running, sm_outcome, sm_after_failure,
                   sm_packet, sm_foreign, sm_caller, sm_ret, sm_started>>
    /\ UNCHANGED nonSensVars

\* One step of time passes: no task is about to run, no cycle has taken
\* its time yet and no delay is over.
SmTimePasses ==
    /\ \E p \in PubIds : sm_pc[p] \in {"collect", "delay"}
    /\ \A p \in PubIds :
          /\ sm_pc[p] \notin {"created", "loop"}
          /\ sm_pc[p] = "collect" => sm_elapsed[p] < SmStepMs
          /\ sm_pc[p] = "delay" => sm_elapsed[p] < s_publish_interval_ms
    /\ sm_elapsed' = [p \in PubIds |->
                        IF sm_pc[p] \in {"collect", "delay"}
                           THEN sm_elapsed[p] + SmStepMs
                           ELSE sm_elapsed[p]]
    /\ UNCHANGED <<s_sensors, s_should_run, sm_running, sm_pc, sm_outcome, sm_after_failure,
                   sm_packet, sm_foreign, sm_caller, sm_ret, sm_started>>
    /\ UNCHANGED nonSensVars

\* The publisher tasks.
PublisherStep ==
    \/ \E p \in PubIds : SmTaskBegins(p)
    \/ \E p \in PubIds : SmLoop(p)
    \/ \E p \in PubIds : sensor_manager_collect_and_publish(p)
    \/ \E p \in PubIds : SmDelayEnds(p)

NextSensor ==
    \/ \E sensor \in RegisterArgs : sensor_manager_register(sensor)
    \/ sensor_manager_start
    \/ sensor_manager_stop
    \/ SmStopReturns
    \/ PublisherStep
    \/ SmTimePasses

\* The sensors registered where only the cadence is looked at: one the
\* transformation knows and one it does not.
CadenceSensors == {"sht4x", "other"}

NextCadence ==
    \/ \E sensor \in CadenceSensors : sensor_manager_register(sensor)
    \/ sensor_manager_start
    \/ sensor_manager_stop
    \/ SmStopReturns
    \/ PublisherStep
    \/ SmTimePasses

----------------------------------------------------------------------------
(***************************************************************************)
(* write_pcm_frames (audio_player.c): one playback job is one call.  The   *)
(* samples of the source carry their position as their value, so that the  *)
(* order of what reaches the DMA can be read off.  A byte is an int16_t     *)
(* value with the half of it (0 low, 1 high).                               *)
(***************************************************************************)

\* Frames a source holds at most.
MaxFrames == 3

\* const size_t chunk_frames (256 in the firmware).
chunk_frames == 2

\* sizeof(int16_t).
SampleBytes == 2

\* The source of a job with the given number of frames and channels.
Source(frames, channels) == [i \in 1..(frames * channels) |-> i]

\* The bytes of a sequence of int16_t values, in memory order.
RECURSIVE BytesOf(_)
BytesOf(values) ==
    IF values = <<>> THEN <<>>
    ELSE <<[value |-> Head(values), half |-> 0],
           [value |-> Head(values), half |-> 1]>> \o BytesOf(Tail(values))

\* The stereo frames of the chunk that starts at frame `from`: a mono
\* sample goes to the left and to the right slot, a stereo frame is copied.
RECURSIVE FillStereo(_, _, _, _)
FillStereo(src, channels, from, frames_this) ==
    IF frames_this = 0 THEN <<>>
    ELSE (IF channels = 1
             THEN <<src[from + 1], src[from + 1]>>
             ELSE <<src[2 * from + 1], src[2 * from + 2]>>)
         \o FillStereo(src, channels, from + 1, frames_this - 1)

\* The bytes handed to the next i2s_channel_write: the chunk from the
\* byte offset total_written on.
PendingBytes_from_start(buffer, written) ==
    SubSeq(BytesOf(buffer), 1, Len(BytesOf(buffer)) - written)

PendingBytes(buffer, written) ==
    SubSeq(BytesOf(buffer), written + 1, Len(BytesOf(buffer)))

PlayBoot ==
    /\ samples = <<>>
    /\ num_channels = 1
    /\ frames_written = 0
    /\ stereo_buffer = <<>>
    /\ bytes_to_write = 0
    /\ total_written = 0
    /\ tx = <<>>
    /\ wp_pc = "idle"
    /\ wp_ret = "ESP_OK"
    /\ saw_partial = FALSE
    /\ saw_zero = FALSE

nonPlayVars ==
    <<tlsVars, wakeVars, voiceVars, timeVars, ledVars, callVars, sensVars,
      extVars>>

\* write_pcm_frames is called: the argument checks.
WpCall ==
    /\ wp_pc \in {"idle", "done"}
    /\ wav_pc # "write"
    /\ \E frames \in 0..MaxFrames, channels \in 1..3 :
          /\ num_channels' = channels
          /\ IF frames = 0 \/ channels \notin {1, 2}
                THEN /\ samples' = <<>>
                     /\ wp_pc' = "done"
                     /\ wp_ret' = "ESP_ERR_INVALID_ARG"
                ELSE /\ samples' = Source(frames, channels)
                     /\ wp_pc' = "chunk"
                     /\ wp_ret' = "ESP_OK"
    /\ frames_written' = 0
    /\ stereo_buffer' = <<>>
    /\ bytes_to_write' = 0
    /\ total_written' = 0
    /\ tx' = <<>>
    /\ saw_partial' = FALSE
    /\ saw_zero' = FALSE
    /\ UNCHANGED nonPlayVars

\* The number of frames the job has: the sample_count argument.
sample_count == Len(samples) \div num_channels

\* The outer loop: the next chunk is put into stereo_buffer, or the
\* function returns ESP_OK.
WpChunk ==
    /\ wp_pc = "chunk"
    /\ IF frames_written < sample_count
          THEN LET left == sample_count - frames_written
                   frames_this ==
                      IF chunk_frames > left THEN left ELSE chunk_frames
               IN  /\ stereo_buffer' = FillStereo(samples, num_channels,
                                                  frames_written, frames_this)
                   /\ bytes_to_write' = frames_this * SampleBytes * 2
                   /\ total_written' = 0
                   /\ wp_pc' = "write"
                   /\ UNCHANGED wp_ret
          ELSE /\ wp_pc' = "done"
               /\ wp_ret' = "ESP_OK"
               /\ UNCHANGED <<stereo_buffer, bytes_to_write, total_written>>
    /\ UNCHANGED <<samples, num_channels, frames_written, tx, saw_partial,
                   saw_zero>>
    /\ UNCHANGED nonPlayVars

\* One i2s_channel_write of the inner loop: it fails, or the DMA accepts
\* zero bytes, a part, or all of what it was given; after the last byte of
\* the chunk frames_written moves on.
WpWrite ==
    /\ wp_pc = "write"
    /\ LET pending == PendingBytes(stereo_buffer, total_written)
       IN  \/ /\ wp_pc' = "done"
              /\ wp_ret' = "ESP_FAIL"
              /\ UNCHANGED <<frames_written, total_written, tx, saw_partial,
                             saw_zero>>
           \/ \E bytes_written \in 0..Len(pending) :
                 /\ tx' = tx \o SubSeq(pending, 1, bytes_written)
                 /\ total_written' = total_written + bytes_written
                 /\ saw_zero' = (saw_zero \/ bytes_written = 0)
                 /\ saw_partial' =
                       (saw_partial
                          \/ (0 < bytes_written /\ bytes_written < Len(pending)))
                 /\ IF total_written + bytes_written < bytes_to_write
                       THEN UNCHANGED <<wp_pc, frames_written>>
                       ELSE /\ wp_pc' = "chunk"
                            /\ frames_written' =
                                  frames_written
                                     + (bytes_to_write \div (SampleBytes * 2))
                 /\ UNCHANGED wp_ret
    /\ UNCHANGED <<samples, num_channels, stereo_buffer, bytes_to_write>>
    /\ UNCHANGED nonPlayVars

NextPlay ==
    \/ WpCall
    \/ WpChunk
    \/ WpWrite

----------------------------------------------------------------------------
(***************************************************************************)
(* audio_player_play_wav (audio_player.c): one playback job from a         *)
(* container blob.  The blob is the record of what the parser looks at:    *)
(* its magic, the chunks in file order, the fields of the fmt chunk and    *)
(* the number of frames of the data chunk.  The player is initialised and  *)
(* the fmt chunk names one or two channels.  The samples are the positions *)
(* in the data chunk: the equaliser and the float conversion are left out. *)
(***************************************************************************)

\* Frames the data chunk holds at most.
MaxWavFrames == 3

\* Chunks a blob holds at most.
MaxChunks == 3

\* Frames handed to one write_pcm_frames call (1024 in the firmware).
BatchFrames == 2

\* const size_t chunk_size of the float path.
chunk_size == BatchFrames

\* const size_t update_interval of the PCM path with a progress sink.
update_interval == BatchFrames

\* The magic of the blob: fine, wav_len not above sizeof(wav_header_t),
\* chunk_id other than "RIFF", format other than "WAVE".
Magics == {"ok", "short", "bad_riff", "bad_wave"}

\* A chunk as the walk sees it: a fmt chunk, a fmt chunk of fewer than 16
\* bytes, the data chunk, any other chunk, a chunk whose size runs beyond
\* the end of the blob.
ChunkKinds == {"fmt ", "fmt_small", "data", "other", "overrun"}

\* fmt.audio_format: 1 integer PCM, 3 IEEE float, 2 anything else.
AudioFormats == {1, 2, 3}

\* fmt.bits_per_sample.
BitDepths == {8, 16, 32}

RECURSIVE SeqsUpTo(_, _)
SeqsUpTo(S, n) ==
    IF n = 0 THEN {<<>>}
    ELSE LET shorter == SeqsUpTo(S, n - 1)
         IN  shorter \cup {Append(q, x) : q \in shorter, x \in S}

Wavs ==
    [magic : Magics, chunks : SeqsUpTo(ChunkKinds, MaxChunks),
     audio_format : AudioFormats, bits_per_sample : BitDepths,
     num_channels : {1, 2}, frame_count : 0..MaxWavFrames,
     progress_cb : BOOLEAN]

\* The blob before any call.
NoWav ==
    [magic |-> "short", chunks |-> <<>>, audio_format |-> 1,
     bits_per_sample |-> 16, num_channels |-> 1, frame_count |-> 0,
     progress_cb |-> FALSE]

\* The chunk walk: "ok" when fmt and then data were found, else what
\* stopped it.
RECURSIVE WalkChunks(_, _)
WalkChunks(chunks, fmt_found) ==
    IF chunks = <<>>
       THEN IF fmt_found THEN "no_data" ELSE "no_fmt"
       ELSE LET c == Head(chunks)
            IN  CASE c = "overrun" -> "overrun"
                  [] ~fmt_found /\ c = "fmt_small" -> "fmt_small"
                  [] ~fmt_found /\ c = "fmt " -> WalkChunks(Tail(chunks), TRUE)
                  [] c = "data" -> IF fmt_found THEN "ok" ELSE "no_fmt"
                  [] OTHER -> WalkChunks(Tail(chunks), fmt_found)

\* The checks of audio_player_play_wav before the sample rate is set:
\* ESP_OK, or the error it returns.
wav_check(w) ==
    IF w.magic # "ok" THEN "ESP_ERR_INVALID_ARG"
    ELSE IF WalkChunks(w.chunks, FALSE) # "ok" THEN "ESP_ERR_INVALID_ARG"
    ELSE IF w.audio_format \notin {1, 3} THEN "ESP_ERR_NOT_SUPPORTED"
    ELSE IF w.audio_format = 3 /\ w.bits_per_sample # 32
       THEN "ESP_ERR_NOT_SUPPORTED"
    ELSE IF w.audio_format = 1 /\ w.bits_per_sample # 16
       THEN "ESP_ERR_NOT_SUPPORTED"
    ELSE "ESP_OK"

is_float(w) == w.audio_format = 3

\* A call of the progress sink.
ProgressCall(progress, playing) == [progress |-> progress, playing |-> playing]

\* (float)frames / (float)frame_count, in thousandths.
Progress(frames, frame_count) ==
    IF frames >= frame_count THEN 1000 ELSE (frames * 1000) \div frame_count

\* progress_cb(1.0f, true); vTaskDelay(...); progress_cb(0.0f, false).
FinalCalls == <<ProgressCall(1000, TRUE), ProgressCall(0, FALSE)>>

PlayWavBoot ==
    /\ wav = NoWav
    /\ wav_pc = "idle"
    /\ wav_ret = "ESP_OK"
    /\ frames_processed = 0
    /\ sink = <<>>
    /\ wav_tx = 0
    /\ wav_started = FALSE
    /\ wav_dma_error = FALSE

\* Everything audio_player_play_wav and write_pcm_frames never write.
nonWavVars == <<coreVars, mp3Vars, owVars, erVars, rqVars, ttsVars, frVars, dtVars, siVars>>

\* write_pcm_frames is entered with `frames` frames that start at frame
\* `from` of the data chunk.
WavWrite(w, from, frames) ==
    /\ samples' = [i \in 1..(frames * w.num_channels) |->
                      from * w.num_channels + i]
    /\ num_channels' = w.num_channels
    /\ IF frames = 0
          THEN /\ wp_pc' = "done"
               /\ wp_ret' = "ESP_ERR_INVALID_ARG"
          ELSE /\ wp_pc' = "chunk"
               /\ wp_ret' = "ESP_OK"
    /\ frames_written' = 0
    /\ stereo_buffer' = <<>>
    /\ bytes_to_write' = 0
    /\ total_written' = 0
    /\ tx' = <<>>
    /\ saw_partial' = FALSE
    /\ saw_zero' = FALSE
    /\ wav_pc' = "write"
    /\ UNCHANGED wav_ret

\* audio_player_play_wav returns.
WavReturn(ret) ==
    /\ wav_pc' = "done"
    /\ wav_ret' = ret
    /\ UNCHANGED playVars

\* The float loop tests its condition: the next chunk is written, or the
\* final calls are made and err is returned.
FloatLoop_ignores_err(w, done, err, calls) ==
    IF done < w.frame_count
       THEN /\ WavWrite(w, done,
                        IF done + chunk_size > w.frame_count
                           THEN w.frame_count - done ELSE chunk_size)
            /\ sink' = calls
       ELSE /\ WavReturn(err)
            /\ sink' = IF w.progress_cb THEN calls \o FinalCalls ELSE calls

FloatLoop(w, done, err, calls) ==
    IF done < w.frame_count /\ err = "ESP_OK"
       THEN /\ WavWrite(w, done,
                        IF done + chunk_size > w.frame_count
                           THEN w.frame_count - done ELSE chunk_size)
            /\ sink' = calls
       ELSE /\ WavReturn(err)
            /\ sink' = IF w.progress_cb THEN calls \o FinalCalls ELSE calls

\* The loop of the PCM path with a progress sink tests its condition.
PcmLoop(w, done, calls) ==
    IF done < w.frame_count
       THEN /\ WavWrite(w, done,
                        IF done + update_interval > w.frame_count
                           THEN w.frame_count - done ELSE update_interval)
            /\ sink' = calls
       ELSE /\ WavReturn("ESP_OK")
            /\ sink' = calls \o FinalCalls

\* audio_player_play_wav is called and runs to its first write_pcm_frames
\* or to its return.  ensure_sample_rate can fail in the I2S driver and
\* the buffers of the float path can fail to be allocated.
PlayWavCall ==
    /\ wav_pc = "idle"
    /\ wp_pc \in {"idle", "done"}
    /\ \E w \in Wavs :
          /\ wav' = w
          /\ frames_processed' = 0
          /\ wav_tx' = 0
          /\ wav_dma_error' = FALSE
          /\ IF wav_check(w) # "ESP_OK"
                THEN /\ WavReturn(wav_check(w))
                     /\ sink' = <<>>
                     /\ wav_started' = FALSE
                ELSE \/ /\ WavReturn("ESP_FAIL")
                        /\ sink' = <<>>
                        /\ wav_started' = FALSE
                     \/ /\ is_float(w)
                        /\ WavReturn("ESP_ERR_NO_MEM")
                        /\ sink' = <<>>
                        /\ wav_started' = FALSE
                     \/ /\ wav_started' = TRUE
                        /\ IF is_float(w) THEN FloatLoop(w, 0, "ESP_OK", <<>>)
                           ELSE IF w.progress_cb THEN PcmLoop(w, 0, <<>>)
                           ELSE /\ WavWrite(w, 0, w.frame_count)
                                /\ sink' = <<>>
    /\ UNCHANGED nonWavVars

\* write_pcm_frames returns to audio_player_play_wav, which runs to its
\* next write_pcm_frames or to its return.
PlayWavWriteReturns ==
    /\ wav_pc = "write"
    /\ wp_pc = "done"
    /\ LET err == wp_ret
           frames_this == Len(samples) \div num_channels
           done == frames_processed + frames_this
           called == Append(sink,
                            ProgressCall(Progress(done, wav.frame_count), TRUE))
       IN  /\ wav_tx' = wav_tx + Len(tx)
           /\ wav_dma_error' = (wp_ret = "ESP_FAIL")
           /\ IF is_float(wav)
                 THEN /\ frames_processed' = done
                      /\ FloatLoop(wav, done, err,
                                   IF wav.progress_cb /\ err = "ESP_OK"
                                      THEN called ELSE sink)
                 ELSE IF wav.progress_cb
                 THEN IF err # "ESP_OK"
                         THEN /\ WavReturn(err)
                              /\ UNCHANGED <<frames_processed, sink>>
                         ELSE /\ frames_processed' = done
                              /\ PcmLoop(wav, done, called)
                 ELSE /\ WavReturn(err)
                      /\ UNCHANGED <<frames_processed, sink>>
    /\ UNCHANGED <<wav, wav_started>>
    /\ UNCHANGED nonWavVars

\* The caller has the return value; the locals of the call are gone.
PlayWavReturned ==
    /\ wav_pc = "done"
    /\ wav' = NoWav
    /\ wav_pc' = "idle"
    /\ wav_ret' = "ESP_OK"
    /\ frames_processed' = 0
    /\ sink' = <<>>
    /\ wav_tx' = 0
    /\ wav_started' = FALSE
    /\ wav_dma_error' = FALSE
    /\ samples' = <<>>
    /\ num_channels' = 1
    /\ frames_written' = 0
    /\ stereo_buffer' = <<>>
    /\ bytes_to_write' = 0
    /\ total_written' = 0
    /\ tx' = <<>>
    /\ wp_pc' = "idle"
    /\ wp_ret' = "ESP_OK"
    /\ saw_partial' = FALSE
    /\ saw_zero' = FALSE
    /\ UNCHANGED nonWavVars

NextWav ==
    \/ PlayWavCall
    \/ PlayWavWriteReturns
    \/ PlayWavReturned
    \/ WpChunk
    \/ WpWrite

----------------------------------------------------------------------------
(***************************************************************************)
(* Compressed playback: mp3_decoder_decode (mp3_decoder.c), the playback   *)
(* task and audio_file_manager_play / _stop (audio_file_manager.c).  The   *)
(* one caller of audio_file_manager_play is the HTTP server task.  Sizes   *)
(* are scaled: a frame is at most MaxFrameBytes bytes and decodes to at    *)
(* most one sample per channel.                                            *)
(***************************************************************************)

\* Playback tasks created in a behaviour at most.
MaxPlays == 2

\* const size_t mp3_buffer_size (32768 in the firmware).
mp3_buffer_size == 2

\* Bytes a file holds at most.
MaxFileBytes == 3

\* Bytes mp3dec_decode_frame uses up in one call at most.
MaxFrameBytes == 1

\* int timeout of audio_file_manager_stop (100 in the firmware).
StopPolls == 2

\* pcm_buffer_size / sizeof(int16_t): room for one frame of two channels.
pcm_out_size == 1 * 2

Mp3Tasks == 1..MaxPlays

\* What mp3dec_decode_frame can report for a buffer of mp3_len bytes: the
\* samples per channel it returns (negative, none, or a frame, here also a
\* frame larger than the output buffer) and info.frame_bytes,
\* info.channels (two channels throughout).
DecodeFrameResults(mp3_len) ==
    [samples : {-1, 0, 1, 2},
     frame_bytes : 0..(IF mp3_len < MaxFrameBytes THEN mp3_len
                                                   ELSE MaxFrameBytes),
     channels : {2}]

NoDecode == [samples |-> 0, frame_bytes |-> 0, channels |-> 1]

DecodeOut(ret, samples_decoded, consumed) ==
    [ret |-> ret, samples_decoded |-> samples_decoded,
     bytes_consumed |-> consumed]

\* mp3_decoder_decode on a created decoder with all pointers given; info is
\* what mp3dec_decode_frame reports.  samples_decoded keeps the caller's 0
\* where the function does not write it.
mp3_decoder_decode(mp3_len, info) ==
    IF mp3_len = 0 THEN DecodeOut("ESP_OK", 0, 0)
    ELSE IF info.samples < 0 THEN DecodeOut("ESP_ERR_INVALID_RESPONSE", 0, 0)
    ELSE IF info.samples = 0 THEN DecodeOut("ESP_OK", 0, 0)
    ELSE IF info.samples * info.channels > pcm_out_size
       THEN DecodeOut("ESP_ERR_NO_MEM", 0, 0)
    ELSE DecodeOut("ESP_OK", info.samples * info.channels, info.frame_bytes)

Mp3Boot ==
    /\ s_playing = FALSE
    /\ s_playback_task = 0
    /\ mp3_pc = [t \in Mp3Tasks |-> "none"]
    /\ bytes_read = [t \in Mp3Tasks |-> 0]
    /\ eof = [t \in Mp3Tasks |-> FALSE]
    /\ file_left = [t \in Mp3Tasks |-> 0]
    /\ duration_seconds = [t \in Mp3Tasks |-> -1]
    /\ cap_elapsed = [t \in Mp3Tasks |-> FALSE]
    /\ dec_info = [t \in Mp3Tasks |-> NoDecode]
    /\ dec_out = [t \in Mp3Tasks |-> DecodeOut("ESP_OK", 0, 0)]
    /\ httpd_pc = "idle"
    /\ timeout = 0
    /\ stop_left_by = "none"
    /\ stop_requested = [t \in Mp3Tasks |-> FALSE]
    /\ ran_after = [t \in Mp3Tasks |-> FALSE]

\* Everything the compressed playback never writes.
nonMp3Vars == <<coreVars, playVars, wavVars, owVars, erVars, rqVars, ttsVars, frVars, dtVars, siVars>>

\* The rest of audio_file_manager_play after audio_file_manager_stop has
\* returned: the file is not found, or s_playing is set and the task is
\* created, or the task cannot be created.
PlayAfterStop ==
    \/ UNCHANGED <<s_playing, s_playback_task, mp3_pc, file_left,
                   duration_seconds>>
    \/ /\ s_playing' = FALSE
       /\ UNCHANGED <<s_playback_task, mp3_pc, file_left, duration_seconds>>
    \/ \E t \in Mp3Tasks, size \in 0..MaxFileBytes, duration \in {-1, 1} :
          /\ mp3_pc[t] = "none"
          /\ \A u \in Mp3Tasks : u < t => mp3_pc[u] # "none"
          /\ s_playing' = TRUE
          /\ s_playback_task' = t
          /\ mp3_pc' = [mp3_pc EXCEPT ![t] = "start"]
          /\ file_left' = [file_left EXCEPT ![t] = size]
          /\ duration_seconds' = [duration_seconds EXCEPT ![t] = duration]

\* audio_file_manager_play is called: audio_file_manager_stop either
\* starts to wait for the task or returns at once.
PlayCall ==
    /\ httpd_pc = "idle"
    /\ IF s_playing /\ s_playback_task # 0
          THEN /\ s_playing' = FALSE
               /\ timeout' = StopPolls
               /\ httpd_pc' = "poll"
               /\ stop_requested' =
                     [stop_requested EXCEPT ![s_playback_task] = TRUE]
               /\ stop_left_by' = "none"
               /\ UNCHANGED <<s_playback_task, mp3_pc, file_left,
                              duration_seconds>>
          ELSE /\ PlayAfterStop
               /\ UNCHANGED <<timeout, httpd_pc, stop_requested,
                              stop_left_by>>
    /\ UNCHANGED <<bytes_read, eof, cap_elapsed, dec_info, dec_out, ran_after>>
    /\ UNCHANGED nonMp3Vars

\* while (s_playback_task != NULL && timeout-- > 0) vTaskDelay(...): one
\* test of the condition.
StopPoll ==
    /\ httpd_pc = "poll"
    /\ IF s_playback_task = 0
          THEN /\ stop_left_by' = "exited"
               /\ httpd_pc' = "idle"
               /\ PlayAfterStop
               /\ UNCHANGED timeout
          ELSE IF timeout > 0
          THEN /\ timeout' = timeout - 1
               /\ UNCHANGED <<httpd_pc, stop_left_by, s_playing,
                              s_playback_task, mp3_pc, file_left,
                              duration_seconds>>
          ELSE /\ timeout' = timeout - 1
               /\ stop_left_by' = "timeout"
               /\ httpd_pc' = "idle"
               /\ PlayAfterStop
    /\ UNCHANGED <<bytes_read, eof, cap_elapsed, dec_info, dec_out,
                   stop_requested, ran_after>>
    /\ UNCHANGED nonMp3Vars

\* The end of mp3_playback_task.
TaskExit(t) ==
    /\ s_playing' = FALSE
    /\ s_playback_task' = 0
    /\ mp3_pc' = [mp3_pc EXCEPT ![t] = "exited"]
    /\ bytes_read' = [bytes_read EXCEPT ![t] = 0]
    /\ eof' = [eof EXCEPT ![t] = FALSE]
    /\ file_left' = [file_left EXCEPT ![t] = 0]

\* The task begins: fopen, mp3_decoder_create or the buffers can fail;
\* else the buffer is pre-filled.
TaskStart(t) ==
    /\ mp3_pc[t] = "start"
    /\ \/ TaskExit(t)
       \/ LET prefill_read == IF file_left[t] < mp3_buffer_size
                                 THEN file_left[t] ELSE mp3_buffer_size
          IN  /\ bytes_read' = [bytes_read EXCEPT ![t] = prefill_read]
              /\ eof' = [eof EXCEPT ![t] = (prefill_read = 0)]
              /\ file_left' = [file_left EXCEPT ![t] = @ - prefill_read]
              /\ mp3_pc' = [mp3_pc EXCEPT ![t] = "loop"]
              /\ UNCHANGED <<s_playing, s_playback_task>>
    /\ UNCHANGED <<duration_seconds, cap_elapsed, dec_info, dec_out, httpd_pc,
                   timeout, stop_left_by, stop_requested, ran_after>>
    /\ UNCHANGED nonMp3Vars

\* esp_timer_get_time() - start_time_us reaches duration_us.
CapElapses(t) ==
    /\ mp3_pc[t] \in {"loop", "submit", "delay"}
    /\ duration_seconds[t] > 0
    /\ ~cap_elapsed[t]
    /\ cap_elapsed' = [cap_elapsed EXCEPT ![t] = TRUE]
    /\ UNCHANGED <<s_playing, s_playback_task, mp3_pc, bytes_read, eof,
                   file_left, duration_seconds, dec_info, dec_out, httpd_pc,
                   timeout, stop_left_by, stop_requested, ran_after>>
    /\ UNCHANGED nonMp3Vars

\* bytes_read after bytes_consumed bytes are moved out of the buffer.
AfterConsume(level, consumed) ==
    IF consumed < level THEN level - consumed ELSE 0

\* One pass of the loop from its condition to audio_player_submit_pcm or
\* to the vTaskDelay at its end, or out of the loop to the end of the
\* task.
TaskLoop(t) ==
    /\ mp3_pc[t] = "loop"
    /\ IF ~(s_playing /\ ~eof[t]) \/ (duration_seconds[t] > 0 /\ cap_elapsed[t])
          THEN /\ TaskExit(t)
               /\ UNCHANGED <<dec_info, dec_out, ran_after>>
          ELSE LET refill == bytes_read[t] < mp3_buffer_size \div 2
                   to_read == mp3_buffer_size - bytes_read[t]
                   total_read == IF ~refill THEN 0
                                 ELSE IF file_left[t] < to_read
                                    THEN file_left[t] ELSE to_read
                   level == bytes_read[t] + total_read
               IN  /\ ran_after' =
                         [ran_after EXCEPT
                            ![t] = @ \/ stop_requested[t] \/ cap_elapsed[t]]
                   /\ IF level = 0
                         THEN /\ TaskExit(t)
                              /\ UNCHANGED <<dec_info, dec_out>>
                         ELSE \E info \in DecodeFrameResults(level) :
                                LET r == mp3_decoder_decode(level, info)
                                IN  /\ dec_info' = [dec_info EXCEPT ![t] = info]
                                    /\ dec_out' = [dec_out EXCEPT ![t] = r]
                                    /\ file_left' = [file_left EXCEPT
                                                       ![t] = @ - total_read]
                                    /\ eof' = [eof EXCEPT ![t] =
                                                 refill
                                                   /\ file_left[t] < to_read]
                                    /\ UNCHANGED <<s_playing, s_playback_task>>
                                    /\ IF /\ r.ret = "ESP_OK"
                                          /\ r.samples_decoded > 0
                                          /\ r.bytes_consumed > 0
                                          THEN /\ mp3_pc' =
                                                    [mp3_pc EXCEPT
                                                       ![t] = "submit"]
                                               /\ bytes_read' =
                                                    [bytes_read EXCEPT
                                                       ![t] = level]
                                          ELSE /\ mp3_pc' =
                                                    [mp3_pc EXCEPT
                                                       ![t] = "delay"]
                                               /\ bytes_read' =
                                                    [bytes_read EXCEPT ![t] =
                                                       IF r.bytes_consumed > 0
                                                          THEN level
                                                               - r.bytes_consumed
                                                       ELSE IF level
                                                               >= mp3_buffer_size
                                                          THEN 0
                                                          ELSE level]
    /\ UNCHANGED <<duration_seconds, cap_elapsed, httpd_pc, timeout,
                   stop_left_by, stop_requested>>
    /\ UNCHANGED nonMp3Vars

\* audio_player_submit_pcm returns (its error is only logged) and the
\* bytes of the frame are moved out of the buffer.
TaskSubmitReturns(t) ==
    /\ mp3_pc[t] = "submit"
    /\ mp3_pc' = [mp3_pc EXCEPT ![t] = "delay"]
    /\ bytes_read' = [bytes_read EXCEPT
                        ![t] = AfterConsume(@, dec_out[t].bytes_consumed)]
    /\ UNCHANGED <<s_playing, s_playback_task, eof, file_left,
                   duration_seconds, cap_elapsed, dec_info, dec_out, httpd_pc,
                   timeout, stop_left_by, stop_requested, ran_after>>
    /\ UNCHANGED nonMp3Vars

\* vTaskDelay(pdMS_TO_TICKS(5)) at the end of the loop body ends.
TaskDelayEnds(t) ==
    /\ mp3_pc[t] = "delay"
    /\ mp3_pc' = [mp3_pc EXCEPT ![t] = "loop"]
    /\ dec_info' = [dec_info EXCEPT ![t] = NoDecode]
    /\ dec_out' = [dec_out EXCEPT ![t] = DecodeOut("ESP_OK", 0, 0)]
    /\ UNCHANGED <<s_playing, s_playback_task, bytes_read, eof, file_left,
                   duration_seconds, cap_elapsed, httpd_pc,
                   timeout, stop_left_by, stop_requested, ran_after>>
    /\ UNCHANGED nonMp3Vars

NextMp3 ==
    \/ PlayCall
    \/ StopPoll
    \/ \E t \in Mp3Tasks :
          \/ TaskStart(t)
          \/ CapElapses(t)
          \/ TaskLoop(t)
          \/ TaskSubmitReturns(t)
          \/ TaskDelayEnds(t)

----------------------------------------------------------------------------
(***************************************************************************)
(* The chunk queue of the wake detector (openwakeword_esp32.cpp), chunk by *)
(* chunk: openwakeword_process cuts its samples into chunks and sends each *)
(* without waiting; wake_word_task receives them.  A chunk is named by the *)
(* call that submitted it and its offset in that call.                     *)
(***************************************************************************)

\* const size_t queue_size (16 in the firmware).
queue_size == 2

\* const size_t target_chunk_size (512 in the firmware).
target_chunk_size == 2

\* Samples one call of openwakeword_process is given at most.
MaxSamples == 3

\* Calls of openwakeword_process in a behaviour.
MaxCalls == 3

\* The chunks of a call with num_samples samples: each of
\* target_chunk_size samples, the last padded with zeros to that size.
RECURSIVE ChunksOf(_, _, _)
ChunksOf(call, samples_processed, num_samples) ==
    IF samples_processed >= num_samples THEN <<>>
    ELSE LET left == num_samples - samples_processed
             size == IF left > target_chunk_size THEN target_chunk_size
                     ELSE left
         IN  <<[call |-> call, offset |-> samples_processed, size |-> size,
                padding |-> target_chunk_size - size]>>
             \o ChunksOf(call, samples_processed + size, num_samples)

\* xQueueSend(queue, item, 0): the item goes to the back, or nowhere when
\* the queue is full.
xQueueSend_overwrite(queue, item) ==
    IF Len(queue) < queue_size THEN Append(queue, item)
    ELSE Append(Tail(queue), item)

xQueueSend(queue, item) ==
    IF Len(queue) < queue_size THEN Append(queue, item) ELSE queue

\* The loop of openwakeword_process over its chunks.
RECURSIVE SendChunks(_, _)
SendChunks(queue, chunks) ==
    IF chunks = <<>> THEN queue
    ELSE SendChunks(xQueueSend(queue, Head(chunks)), Tail(chunks))

OwBoot ==
    /\ ow_running = FALSE
    /\ ow_queue = <<>>
    /\ owp_calls = 0
    /\ owp_before = <<>>
    /\ owp_sent = <<>>
    /\ owp_ret = "-"
    /\ ow_received = <<>>

\* Everything the chunk queue never writes.
nonOwVars == <<coreVars, playVars, wavVars, mp3Vars, erVars, rqVars, ttsVars, frVars, dtVars, siVars>>

\* openwakeword_start on an initialised detector.
OwStart ==
    /\ ~ow_running
    /\ ow_running' = TRUE
    /\ UNCHANGED <<ow_queue, owp_calls, owp_before, owp_sent, owp_ret,
                   ow_received>>
    /\ UNCHANGED nonOwVars

\* openwakeword_stop: running cleared, the queue reset.
OwStop ==
    /\ ow_running
    /\ ow_running' = FALSE
    /\ ow_queue' = <<>>
    /\ UNCHANGED <<owp_calls, owp_before, owp_sent, owp_ret, ow_received>>
    /\ UNCHANGED nonOwVars

\* openwakeword_process(audio_data, num_samples) on an initialised
\* detector.
OwProcess ==
    /\ owp_calls < MaxCalls
    /\ \E num_samples \in 0..MaxSamples :
          LET chunks == ChunksOf(owp_calls + 1, 0, num_samples)
          IN  /\ owp_calls' = owp_calls + 1
              /\ owp_before' = ow_queue
              /\ IF ~ow_running
                    THEN /\ owp_ret' = "ESP_ERR_INVALID_STATE"
                         /\ owp_sent' = <<>>
                         /\ UNCHANGED ow_queue
                    ELSE IF num_samples = 0
                    THEN /\ owp_ret' = "ESP_ERR_INVALID_ARG"
                         /\ owp_sent' = <<>>
                         /\ UNCHANGED ow_queue
                    ELSE /\ owp_ret' = "ESP_OK"
                         /\ owp_sent' = chunks
                         /\ ow_queue' = SendChunks(ow_queue, chunks)
    /\ UNCHANGED <<ow_running, ow_received>>
    /\ UNCHANGED nonOwVars

\* wake_word_task: xQueueReceive takes the oldest chunk.
OwReceive ==
    /\ ow_running
    /\ ow_queue # <<>>
    /\ ow_received' = Append(ow_received, Head(ow_queue))
    /\ ow_queue' = Tail(ow_queue)
    /\ UNCHANGED <<ow_running, owp_calls, owp_before, owp_sent, owp_ret>>
    /\ UNCHANGED nonOwVars

NextOw ==
    \/ OwStart
    \/ OwStop
    \/ OwProcess
    \/ OwReceive

----------------------------------------------------------------------------
(***************************************************************************)
(* The LLM request of the environmental report (environmental_report.c),   *)
(* over gemini_llm.                                                        *)
(***************************************************************************)

\* const int LLM_MAX_RETRIES.
LLM_MAX_RETRIES == 2

\* vTaskDelay(pdMS_TO_TICKS(2000)) between two attempts.
LlmBackoffMs == 2000

ErBoot ==
    /\ er_pc = "idle"
    /\ er_retry = 0
    /\ er_ret = "ESP_FAIL"
    /\ er_resps = <<>>
    /\ er_waited_ms = 0

\* Everything the report never writes.
nonErVars == <<coreVars, playVars, wavVars, mp3Vars, owVars, rqVars, ttsVars, frVars, dtVars, siVars>>

\* environmental_report_generate_and_speak up to its LLM loop: the prompt
\* is built, ret = ESP_FAIL, retry = 0.
ErCall ==
    /\ er_pc = "idle"
    /\ er_pc' = "attempt"
    /\ er_retry' = 0
    /\ er_ret' = "ESP_FAIL"
    /\ er_resps' = <<>>
    /\ er_waited_ms' = 0
    /\ UNCHANGED nonErVars

\* One pass of the loop up to its delay: gemini_llm, break on ESP_OK.
ErAttempt(resp) ==
    /\ er_ret' = gemini_llm(resp)
    /\ er_resps' = Append(er_resps, resp)
    /\ er_waited_ms' = 0
    /\ IF gemini_llm(resp) = "ESP_OK"
          THEN er_pc' = "after" /\ UNCHANGED er_retry
          ELSE IF er_retry < LLM_MAX_RETRIES
          THEN er_pc' = "backoff" /\ UNCHANGED er_retry
          ELSE er_pc' = "after" /\ er_retry' = er_retry + 1

ErLoop ==
    /\ er_pc = "attempt"
    /\ \E resp \in LlmResponses : ErAttempt(resp)
    /\ UNCHANGED nonErVars

\* The delay before the next pass, and retry++.
ErBackoff ==
    /\ er_pc = "backoff"
    /\ er_waited_ms' = LlmBackoffMs
    /\ er_retry' = er_retry + 1
    /\ er_pc' = "attempt"
    /\ UNCHANGED <<er_ret, er_resps>>
    /\ UNCHANGED nonErVars

\* After the loop: the report returns ret when it is not ESP_OK, and goes
\* on to speak the response otherwise; either way the function ends.
ErReturn ==
    /\ er_pc = "after"
    /\ er_pc' = "idle"
    /\ er_retry' = 0
    /\ er_ret' = "ESP_FAIL"
    /\ er_resps' = <<>>
    /\ er_waited_ms' = 0
    /\ UNCHANGED nonErVars

NextEr ==
    \/ ErCall
    \/ ErLoop
    \/ ErBackoff
    \/ ErReturn

----------------------------------------------------------------------------
(***************************************************************************)
(* One request of the Gemini client and its response buffer                *)
(* (gemini_api.c): http_post_json_with_auth and http_event_handler, event  *)
(* by event.  Sizes are in units of 24 KB scaled down.                     *)
(***************************************************************************)

\* size_t RESPONSE_BUFFER_SIZE (96 KB, 192 KB for TTS), FALLBACK_SIZE
\* (32 KB) and MINIMUM_SIZE (24 KB), scaled.
RESPONSE_BUFFER_SIZE == 4

FALLBACK_SIZE == 3

MINIMUM_SIZE == 2

\* evt->data_len of one HTTP_EVENT_ON_DATA at most.
MaxDataLen == 2

\* HTTP_EVENT_ON_DATA events of one request at most.
MaxEvents == 4

RqBoot ==
    /\ rq_pc = "idle"
    /\ rq_ret = "-"
    /\ resp_cap = 0
    /\ resp_len = 0
    /\ resp_data = <<>>
    /\ rq_events = 0
    /\ rq_sent = 0
    /\ rq_overflow = FALSE

\* Everything the request never writes.
nonRqVars == <<coreVars, playVars, wavVars, mp3Vars, owVars, erVars, ttsVars, frVars, dtVars, siVars>>

\* http_post_json_with_auth up to esp_http_client_perform: the buffer is
\* allocated with the first size malloc grants (cap 0: none), the lock is
\* taken and the client created.
RqStart ==
    /\ rq_pc = "idle"
    /\ \E cap \in {RESPONSE_BUFFER_SIZE, FALLBACK_SIZE, MINIMUM_SIZE, 0},
          early \in {"none", "ESP_ERR_TIMEOUT", "ESP_FAIL"} :
          /\ resp_cap' = cap
          /\ IF cap = 0
                THEN rq_ret' = "ESP_ERR_NO_MEM" /\ rq_pc' = "done"
                ELSE IF early # "none"
                THEN rq_ret' = early /\ rq_pc' = "done"
                ELSE rq_ret' = "-" /\ rq_pc' = "perform"
    /\ UNCHANGED <<resp_len, resp_data, rq_events, rq_sent, rq_overflow>>
    /\ UNCHANGED nonRqVars

\* http_event_handler on HTTP_EVENT_ON_DATA: TRUE when it returns
\* ESP_ERR_NO_MEM.
BufferWouldOverflow(data_len) == resp_len + data_len >= resp_cap

\* esp_http_client delivers one HTTP_EVENT_ON_DATA; what the handler
\* returns goes to the client library, not to http_post_json_with_auth.
RqData ==
    /\ rq_pc = "perform"
    /\ rq_events < MaxEvents
    /\ \E data_len \in 0 .. MaxDataLen :
          /\ rq_events' = rq_events + 1
          /\ rq_sent' = rq_sent + data_len
          /\ IF data_len = 0
                THEN UNCHANGED <<resp_len, resp_data, rq_overflow>>
                ELSE IF BufferWouldOverflow(data_len)
                THEN /\ rq_overflow' = TRUE
                     /\ UNCHANGED <<resp_len, resp_data>>
                ELSE /\ resp_data' = Append(resp_data,
                                            [event |-> rq_events + 1,
                                             len |-> data_len])
                     /\ resp_len' = resp_len + data_len
                     /\ UNCHANGED rq_overflow
    /\ UNCHANGED <<rq_pc, rq_ret, resp_cap>>
    /\ UNCHANGED nonRqVars

\* The value http_post_json_with_auth returns from the result of
\* esp_http_client_perform and the status code.
RqResult(o) ==
    IF o.err # "ESP_OK" THEN o.err
    ELSE IF o.status \div 100 # 2 THEN "ESP_FAIL"
    ELSE "ESP_OK"

\* esp_http_client_perform returns; cleanup, the lock is given back, and
\* the request returns.
RqPerformReturns ==
    /\ rq_pc = "perform"
    /\ \E o \in PerformOutcomes : rq_ret' = RqResult(o)
    /\ rq_pc' = "done"
    /\ UNCHANGED <<resp_cap, resp_len, resp_data, rq_events, rq_sent,
                   rq_overflow>>
    /\ UNCHANGED nonRqVars

\* The caller is done with the response and frees the buffer.
RqReturned ==
    /\ rq_pc = "done"
    /\ rq_pc' = "idle"
    /\ rq_ret' = "-"
    /\ resp_cap' = 0
    /\ resp_len' = 0
    /\ resp_data' = <<>>
    /\ rq_events' = 0
    /\ rq_sent' = 0
    /\ rq_overflow' = FALSE
    /\ UNCHANGED nonRqVars

NextRq ==
    \/ RqStart
    \/ RqData
    \/ RqPerformReturns
    \/ RqReturned

----------------------------------------------------------------------------
(***************************************************************************)
(* gemini_tts_streaming (gemini_api.c).  The response carries its audio    *)
(* as a run of blocks 1 .. tts_body; a sink call is the sequence of blocks *)
(* it was handed.                                                          *)
(***************************************************************************)

\* Audio blocks of one response at most.
MaxBlocks == 6

\* What the extraction of "audioContent" from the buffered response ends
\* in: cJSON parsed it, the manual search found it, or one of the failures.
ExtractOutcomes ==
    {"cjson", "manual", "embedded_null", "not_found", "empty",
     "invalid_base64", "no_mem", "decode_failed"}

\* The value gemini_tts_streaming returns when the extraction does not
\* reach the sink ("-" when it does).  After a successful cJSON parse the
\* string lies in cJSON's own allocation, not in the response buffer, and
\* the bounds check on the pointer rejects it.
ExtractReturn(outcome) ==
    CASE outcome = "manual"        -> "-"
      [] outcome = "cjson"         -> "ESP_FAIL"
      [] outcome = "no_mem"        -> "ESP_ERR_NO_MEM"
      [] OTHER                     -> "ESP_FAIL"

\* The blocks first .. last, in order.
RECURSIVE Blocks(_, _)
Blocks(first, last) ==
    IF first > last THEN <<>> ELSE <<first>> \o Blocks(first + 1, last)

TtsBoot ==
    /\ tts_pc = "idle"
    /\ tts_ret = "-"
    /\ tts_body = 0
    /\ tts_received = 0
    /\ tts_audio = 0
    /\ tts_sink = <<>>

\* Everything gemini_tts_streaming never writes.
nonTtsVars == <<coreVars, playVars, wavVars, mp3Vars, owVars, erVars, rqVars, frVars, dtVars, siVars>>

\* gemini_tts_streaming up to http_post_json_with_auth: the 512 KB buffer
\* is allocated, or the call returns ESP_ERR_NO_MEM.
TtsCall ==
    /\ tts_pc = "idle"
    /\ \E allocated \in BOOLEAN, body \in 1 .. MaxBlocks :
          IF allocated
             THEN /\ tts_pc' = "perform"
                  /\ tts_body' = body
                  /\ tts_ret' = "-"
             ELSE /\ tts_pc' = "done"
                  /\ tts_ret' = "ESP_ERR_NO_MEM"
                  /\ UNCHANGED tts_body
    /\ UNCHANGED <<tts_received, tts_audio, tts_sink>>
    /\ UNCHANGED nonTtsVars

\* Inside http_post_json_with_auth: the event handler copies the next
\* part of the body into the response buffer.
TtsData ==
    /\ tts_pc = "perform"
    /\ tts_received < tts_body
    /\ tts_received' = tts_received + 1
    /\ UNCHANGED <<tts_pc, tts_ret, tts_body, tts_audio, tts_sink>>
    /\ UNCHANGED nonTtsVars

\* http_post_json_with_auth returns: with an error at any point of the
\* transfer, or ESP_OK once the body is complete.
TtsPerformReturns ==
    /\ tts_pc = "perform"
    /\ \E o \in PerformOutcomes :
          /\ RqResult(o) = "ESP_OK" => tts_received = tts_body
          /\ IF RqResult(o) = "ESP_OK"
                THEN tts_pc' = "extract" /\ UNCHANGED tts_ret
                ELSE tts_pc' = "done" /\ tts_ret' = RqResult(o)
    /\ UNCHANGED <<tts_body, tts_received, tts_audio, tts_sink>>
    /\ UNCHANGED nonTtsVars

\* The response is parsed and the whole of its audio decoded into
\* audio_samples with one mbedtls_base64_decode.
TtsExtract ==
    /\ tts_pc = "extract"
    /\ \E outcome \in ExtractOutcomes :
          IF ExtractReturn(outcome) = "-"
             THEN /\ tts_audio' = tts_received
                  /\ tts_pc' = "callback"
                  /\ UNCHANGED tts_ret
             ELSE /\ tts_ret' = ExtractReturn(outcome)
                  /\ tts_pc' = "done"
                  /\ UNCHANGED tts_audio
    /\ UNCHANGED <<tts_body, tts_received, tts_sink>>
    /\ UNCHANGED nonTtsVars

\* callback(audio_samples, sample_count, user_data), and the return.
TtsCallback ==
    /\ tts_pc = "callback"
    /\ tts_sink' = Append(tts_sink, Blocks(1, tts_audio))
    /\ \E callback_ret \in {"ESP_OK", "ESP_FAIL"} : tts_ret' = callback_ret
    /\ tts_pc' = "done"
    /\ UNCHANGED <<tts_body, tts_received, tts_audio>>
    /\ UNCHANGED nonTtsVars

\* The caller goes on; the locals are gone.
TtsReturned ==
    /\ tts_pc = "done"
    /\ tts_pc' = "idle"
    /\ tts_ret' = "-"
    /\ tts_body' = 0
    /\ tts_received' = 0
    /\ tts_audio' = 0
    /\ tts_sink' = <<>>
    /\ UNCHANGED nonTtsVars

NextTts ==
    \/ TtsCall
    \/ TtsData
    \/ TtsPerformReturns
    \/ TtsExtract
    \/ TtsCallback
    \/ TtsReturned

----------------------------------------------------------------------------
(***************************************************************************)
(* One compressed playback job over a file made of whole frames, neither   *)
(* stopped nor duration-capped (mp3_playback_task, audio_file_manager.c).  *)
(* A file is the sequence of its frame sizes; a frame is named by its      *)
(* index in the file.                                                      *)
(***************************************************************************)

\* Frames a file holds at most.
MaxFileFrames == 4

\* const size_t mp3_buffer_size of this job (32768 in the firmware).
fr_buffer_size == 4

\* Sizes a frame can have, in bytes.
FrameSizes == {1, 2}

FrameFiles == UNION {[1 .. n -> FrameSizes] : n \in 0 .. MaxFileFrames}

RECURSIVE FileBytes(_)
FileBytes(file) ==
    IF file = <<>> THEN 0 ELSE Head(file) + FileBytes(Tail(file))

\* File offset at which frame i begins.
FrameStart(file, i) == FileBytes(SubSeq(file, 1, i - 1))

\* The frame that begins at a file offset (0 when none does).
FrameAt(file, offset) ==
    IF \E i \in 1 .. Len(file) : FrameStart(file, i) = offset
       THEN CHOOSE i \in 1 .. Len(file) : FrameStart(file, i) = offset
       ELSE 0

\* What mp3dec_decode_frame reports for level bytes beginning at a file
\* offset: the frame there when all of it is in the buffer, else nothing.
FrameInfo(file, offset, level) ==
    LET i == FrameAt(file, offset)
    IN  IF i # 0 /\ file[i] <= level
           THEN [samples |-> 1, frame_bytes |-> file[i], channels |-> 2]
           ELSE [samples |-> 0, frame_bytes |-> 0, channels |-> 2]

FrBoot ==
    /\ fr_pc = "none"
    /\ fr_file = <<>>
    /\ fr_pos = 0
    /\ fr_offset = 0
    /\ fr_bytes_read = 0
    /\ fr_eof = FALSE
    /\ fr_submitted = <<>>

\* Everything this job never writes.
nonFrVars == <<coreVars, playVars, wavVars, mp3Vars, owVars, erVars, rqVars, ttsVars, dtVars, siVars>>

\* The task begins on an opened file: the buffer is pre-filled.
FrStart ==
    /\ fr_pc = "none"
    /\ \E file \in FrameFiles :
          LET size == FileBytes(file)
              prefill_read == IF size < fr_buffer_size THEN size
                              ELSE fr_buffer_size
          IN  /\ fr_file' = file
              /\ fr_pos' = prefill_read
              /\ fr_bytes_read' = prefill_read
              /\ fr_eof' = (prefill_read = 0)
    /\ fr_offset' = 0
    /\ fr_submitted' = <<>>
    /\ fr_pc' = "loop"
    /\ UNCHANGED nonFrVars

\* One pass of while (s_playing && !eof) with s_playing set and no
\* duration: refill below the threshold, decode, submit, move the rest.
FrLoop ==
    /\ fr_pc = "loop"
    /\ IF fr_eof
          THEN /\ fr_pc' = "exited"
               /\ UNCHANGED <<fr_pos, fr_offset, fr_bytes_read, fr_eof,
                              fr_submitted>>
          ELSE LET refill == fr_bytes_read < fr_buffer_size \div 2
                   to_read == fr_buffer_size - fr_bytes_read
                   left == FileBytes(fr_file) - fr_pos
                   total_read == IF ~refill THEN 0
                                 ELSE IF left < to_read THEN left
                                 ELSE to_read
                   level == fr_bytes_read + total_read
                   info == FrameInfo(fr_file, fr_offset, level)
                   r == mp3_decoder_decode(level, info)
                   good == /\ r.ret = "ESP_OK"
                           /\ r.samples_decoded > 0
                           /\ r.bytes_consumed > 0
               IN  /\ fr_pos' = fr_pos + total_read
                   /\ fr_eof' = (refill /\ left < to_read)
                   /\ IF level = 0
                         THEN /\ fr_pc' = "exited"
                              /\ UNCHANGED <<fr_offset, fr_bytes_read,
                                             fr_submitted>>
                         ELSE IF good
                         THEN /\ fr_submitted' =
                                    Append(fr_submitted,
                                           FrameAt(fr_file, fr_offset))
                              /\ fr_bytes_read' =
                                    AfterConsume(level, r.bytes_consumed)
                              /\ fr_offset' = fr_offset + r.bytes_consumed
                              /\ UNCHANGED fr_pc
                         ELSE /\ fr_bytes_read' =
                                    IF level >= fr_buffer_size THEN 0
                                    ELSE level
                              /\ fr_offset' =
                                    IF level >= fr_buffer_size
                                       THEN fr_offset + level
                                       ELSE fr_offset
                              /\ UNCHANGED <<fr_pc, fr_submitted>>
    /\ UNCHANGED fr_file
    /\ UNCHANGED nonFrVars

\* The task is gone; another job can begin.
FrGone ==
    /\ fr_pc = "exited"
    /\ fr_pc' = "none"
    /\ fr_file' = <<>>
    /\ fr_pos' = 0
    /\ fr_offset' = 0
    /\ fr_bytes_read' = 0
    /\ fr_eof' = FALSE
    /\ fr_submitted' = <<>>
    /\ UNCHANGED nonFrVars

NextFr ==
    \/ FrStart
    \/ FrLoop
    \/ FrGone

----------------------------------------------------------------------------
(***************************************************************************)
(* The counters of wake_word_task over stops and starts of the detector    *)
(* (openwakeword_esp32.cpp).  The counters are function-static: they       *)
(* belong to the program, not to one run of the task.                      *)
(***************************************************************************)

\* Starts of the detector in a behaviour at most.
MaxStarts == 3

DtBoot ==
    /\ dt_running = FALSE
    /\ dt_speech_count = 0
    /\ dt_silence_count = 0
    /\ dt_since_start = 0
    /\ dt_starts = 0
    /\ dt_event = "-"

\* Everything the detector's counters never write.
nonDtVars == <<coreVars, playVars, wavVars, mp3Vars, owVars, erVars, rqVars, ttsVars, frVars, siVars>>

\* openwakeword_start on a stopped detector: running is set and a new
\* wake_word_task created; the statics keep their values.
DtStart ==
    /\ ~dt_running
    /\ dt_starts < MaxStarts
    /\ dt_running' = TRUE
    /\ dt_starts' = dt_starts + 1
    /\ dt_since_start' = 0
    /\ dt_event' = "-"
    /\ UNCHANGED <<dt_speech_count, dt_silence_count>>
    /\ UNCHANGED nonDtVars

\* openwakeword_stop: running cleared, the task leaves, the queue is
\* reset.
DtStop ==
    /\ dt_running
    /\ dt_running' = FALSE
    /\ dt_event' = "-"
    /\ UNCHANGED <<dt_speech_count, dt_silence_count, dt_since_start,
                   dt_starts>>
    /\ UNCHANGED nonDtVars

\* wake_word_task, one chunk received: its energy against the threshold,
\* the counters, and on a wake event the callback and the reset of both
\* counters.
DtChunk ==
    /\ dt_running
    /\ \E rms \in RmsLevels :
          LET speech == rms > ENERGY_THRESHOLD
              sc == IF speech THEN Bump(dt_speech_count) ELSE dt_speech_count
              qc == IF speech THEN 0 ELSE Bump(dt_silence_count)
              fire == /\ ~speech
                      /\ sc >= SPEECH_CHUNKS_REQUIRED
                      /\ qc >= SILENCE_CHUNKS_REQUIRED
          IN  /\ dt_speech_count' = IF fire THEN 0 ELSE sc
              /\ dt_silence_count' = IF fire THEN 0 ELSE qc
              /\ dt_since_start' = IF speech THEN Bump(dt_since_start)
                                   ELSE dt_since_start
              /\ dt_event' = IF fire THEN "wake" ELSE "-"
    /\ UNCHANGED <<dt_running, dt_starts>>
    /\ UNCHANGED nonDtVars

NextDt ==
    \/ DtStart
    \/ DtStop
    \/ DtChunk

----------------------------------------------------------------------------
(***************************************************************************)
(* sensor_integration_start, sensor_integration_stop and the sampling task *)
(* (sensor_integration.c).  xTaskCreate makes the new task ready; whether  *)
(* it runs before the creator's next statement is the scheduler's choice   *)
(* (the task has priority 5), so the start is two steps.                   *)
(***************************************************************************)

\* Passes of the sampling loop in a behaviour at most.
MaxSiSamples == 3

\* Calls of start and stop in a behaviour at most.
MaxSiCalls == 5

\* What sensor_manager_start can return to sensor_integration_start.
ManagerStartOutcomes == {"ESP_OK", "ESP_ERR_NO_MEM"}

\* What xTaskCreate can return.
TaskCreateOutcomes == {"pdPASS", "pdFAIL"}

SiBoot ==
    /\ si_initialized = FALSE
    /\ si_running = FALSE
    /\ si_handle = FALSE
    /\ si_task = "none"
    /\ si_pc = "idle"
    /\ si_ret = "-"
    /\ si_started = FALSE
    /\ si_samples = 0
    /\ si_calls = 0

\* Everything the sensor integration never writes.
nonSiVars == <<coreVars, playVars, wavVars, mp3Vars, owVars, erVars, rqVars, ttsVars, frVars, dtVars>>

\* sensor_integration_start up to and including xTaskCreate: the init on
\* the first call, the early return when running, sensor_manager_start,
\* the task creation.  s_running is not yet written.
sensor_integration_start ==
    /\ si_pc = "idle"
    /\ si_calls < MaxSiCalls
    /\ si_calls' = si_calls + 1
    /\ si_initialized' = TRUE
    /\ \E mgr \in ManagerStartOutcomes, created \in TaskCreateOutcomes :
          IF si_running
          THEN /\ si_ret' = "ESP_OK"
               /\ si_started' = TRUE
               /\ UNCHANGED <<si_handle, si_task, si_pc>>
          ELSE IF mgr # "ESP_OK"
          THEN /\ si_ret' = mgr
               /\ si_started' = FALSE
               /\ UNCHANGED <<si_handle, si_task, si_pc>>
          ELSE IF created # "pdPASS"
          THEN /\ si_ret' = "ESP_ERR_NO_MEM"
               /\ si_started' = FALSE
               /\ UNCHANGED <<si_handle, si_task, si_pc>>
          ELSE /\ si_handle' = TRUE
               /\ si_task' = "ready"
               /\ si_pc' = "created"
               /\ UNCHANGED <<si_ret, si_started>>
    /\ UNCHANGED <<si_running, si_samples>>
    /\ UNCHANGED nonSiVars

\* sensor_integration_start after xTaskCreate: s_running = true and the
\* return of ESP_OK.
SiStartReturn ==
    /\ si_pc = "created"
    /\ si_running' = TRUE
    /\ si_ret' = "ESP_OK"
    /\ si_started' = TRUE
    /\ si_pc' = "idle"
    /\ UNCHANGED <<si_initialized, si_handle, si_task, si_samples, si_calls>>
    /\ UNCHANGED nonSiVars

\* sensor_sampling_task, one test of while (s_running): a pass of the loop
\* when the flag is set, vTaskDelete(NULL) when it is not.
sensor_sampling_task ==
    /\ si_task \in {"ready", "sampling"}
    /\ IF si_running
       THEN /\ si_samples < MaxSiSamples
            /\ si_samples' = si_samples + 1
            /\ si_task' = "sampling"
       ELSE /\ si_task' = "deleted"
            /\ UNCHANGED si_samples
    /\ UNCHANGED <<si_initialized, si_running, si_handle, si_pc, si_ret,
                   si_started, si_calls>>
    /\ UNCHANGED nonSiVars

\* sensor_integration_stop: nothing when not running; else the flag is
\* cleared and the task behind the stored handle deleted.
sensor_integration_stop ==
    /\ si_pc = "idle"
    /\ si_calls < MaxSiCalls
    /\ si_calls' = si_calls + 1
    /\ si_ret' = "ESP_OK"
    /\ si_started' = FALSE
    /\ IF ~si_running
       THEN UNCHANGED <<si_running, si_handle, si_task>>
       ELSE /\ si_running' = FALSE
            /\ si_handle' = FALSE
            /\ si_task' = IF si_handle THEN "deleted" ELSE si_task
    /\ UNCHANGED <<si_initialized, si_pc, si_samples>>
    /\ UNCHANGED nonSiVars

NextSi ==
    \/ sensor_integration_start
    \/ SiStartReturn
    \/ sensor_sampling_task
    \/ sensor_integration_stop

----------------------------------------------------------------------------
(***************************************************************************)
(* Specifications                                                          *)
(***************************************************************************)

Init ==
    /\ TlsBoot
    /\ WakeBoot
    /\ VoiceBoot
    /\ TimeBoot
    /\ AmBoot
    /\ SensorBoot
    /\ PlayBoot
    /\ PlayWavBoot
    /\ Mp3Boot
    /\ OwBoot
    /\ ErBoot
    /\ RqBoot
    /\ TtsBoot
    /\ FrBoot
    /\ DtBoot
    /\ SiBoot

\* The specifications that never read the tick rate start from the build
\* with the default rate.
DefaultBuild == tick_rate_hz = 100

InitTls == Init /\ DefaultBuild

InitWake == Init /\ DefaultBuild

InitVoice == Init /\ DefaultBuild

InitTlsTimed == Init

InitAction == Init /\ DefaultBuild

InitSensor == Init /\ DefaultBuild

InitPlay == Init /\ DefaultBuild

InitWav == Init /\ DefaultBuild

InitMp3 == Init /\ DefaultBuild

InitOw == Init /\ DefaultBuild

InitEr == Init /\ DefaultBuild

InitRq == Init /\ DefaultBuild

InitTts == Init /\ DefaultBuild

InitFr == Init /\ DefaultBuild

InitDt == Init /\ DefaultBuild

InitSi == Init /\ DefaultBuild

Next ==
    \/ NextTls
    \/ NextWake
    \/ NextVoice
    \/ NextAction
    \/ NextSensor
    \/ NextPlay
    \/ NextWav
    \/ NextMp3
    \/ NextOw
    \/ NextEr
    \/ NextRq
    \/ NextTts
    \/ NextFr
    \/ NextDt
    \/ NextSi

Spec == Init /\ [][Next]_vars

SpecTls == InitTls /\ [][NextTls]_vars

SpecTlsTimed == InitTlsTimed /\ [][NextTlsTimed]_vars

SpecWake == InitWake /\ [][NextWake]_vars

SpecVoice == InitVoice /\ [][NextVoice]_vars

SpecAction == InitAction /\ [][NextAction]_vars

SpecSensor == InitSensor /\ [][NextSensor]_vars

SpecPlay == InitPlay /\ [][NextPlay]_vars

SpecWav == InitWav /\ [][NextWav]_vars

SpecMp3 == InitMp3 /\ [][NextMp3]_vars

SpecOw == InitOw /\ [][NextOw]_vars

SpecEr == InitEr /\ [][NextEr]_vars

SpecRq == InitRq /\ [][NextRq]_vars

SpecTts == InitTts /\ [][NextTts]_vars

SpecFr == InitFr /\ [][NextFr]_vars

SpecDt == InitDt /\ [][NextDt]_vars

SpecSi == InitSi /\ [][NextSi]_vars

\* The scheduler runs a publisher task that is ready, and time passes.
SpecCadence ==
    /\ InitSensor
    /\ [][NextCadence]_vars
    /\ WF_vars(PublisherStep)
    /\ WF_vars(SmTimePasses)

----------------------------------------------------------------------------
(***************************************************************************)
(* Claims about the wake detector and the voice session (checked under     *)
(* SpecWake)                                                               *)
(***************************************************************************)

\* Task d is inside a voice session: the wake callback runs and has passed
\* its pause of the capture worker.
InGatedSession(d) ==
    /\ det_pc[d] = "callback"
    /\ cb_pc[d] \in {"alloc", "record", "restart", "cmd"}

\* Task d is inside the wake callback, which has not returned.
InSession(d) ==
    /\ det_pc[d] = "callback"
    /\ cb_pc[d] # "return"

\* This step is a wake event: a detection task enters the wake callback.
WakeFires ==
    \E d \in DetIds : det_pc[d] = "loop" /\ det_pc'[d] = "callback"

\* C3: from the moment a wake event is accepted until the command was
\* handled and its reply played, the wake detector is paused: the capture
\* flag is off, so no capture worker feeds chunks to the detector.
C3_HalfDuplexGate ==
    \A d \in DetIds :
        InGatedSession(d) => ~s_running

\* C4: a session that paused the capture on entry has resumed it exactly
\* once when the callback returns, whichever exit path it took.
C4_ResumedOnceOnExit ==
    \A d \in DetIds :
        (det_pc[d] = "callback" /\ cb_pc[d] = "return" /\ was_running[d])
            => sess_resumes[d] = 1

\* C5: voice sessions do not overlap: at most one task is inside the wake
\* callback, for every interleaving of the detection tasks, the capture
\* tasks and the pause / resume calls.
C5_SessionsDoNotOverlap ==
    Cardinality({d \in DetIds : InSession(d)}) <= 1

\* C6: a wake event fires only on at least SPEECH_CHUNKS_REQUIRED
\* consecutive speech chunks immediately followed by at least
\* SILENCE_CHUNKS_REQUIRED consecutive silence chunks; whatever came
\* earlier, a burst of two speech chunks followed by silence does not fire.
C6_FireNeedsFullBurst ==
    [][WakeFires =>
          /\ runSpeech' >= SPEECH_CHUNKS_REQUIRED
          /\ runSilence' >= SILENCE_CHUNKS_REQUIRED]_vars

\* C7: while the detector runs and no chunk is dropped, a run of exactly
\* three speech chunks then two silence chunks fires the wake callback
\* exactly once: not on the first silence chunk, and on the second.
C7_ExactRunFiresOnce ==
    [][(/\ run_clean'
        /\ runSpeech' = SPEECH_CHUNKS_REQUIRED
        /\ runSilence' = runSilence + 1
        /\ runSilence' <= SILENCE_CHUNKS_REQUIRED)
          => (WakeFires <=> runSilence' = SILENCE_CHUNKS_REQUIRED)]_vars

----------------------------------------------------------------------------
(***************************************************************************)
(* Claims about the voice command pipeline (checked under SpecVoice)       *)
(***************************************************************************)

\* Responses from which no reply can be parsed: an empty body, a body that
\* is not JSON, JSON without the expected content.
ParseFailures == {"empty_body", "unparsable", "no_content"}

\* C8: when STT succeeded with an empty transcript the session makes no LLM
\* request and no TTS request, executes no action and leaves the device
\* state as it was.
C8_SilentUtterance ==
    (vc_pc \in {"llm", "action", "confirm", "tts", "play", "done"}
        /\ transcribed_text = "")
      => /\ n_llm = 0
         /\ n_tts = 0
         /\ n_action = 0
         /\ s_device_state = dev_at_start

\* C9 as stated: whenever any LLM response of the session cannot be parsed,
\* the session issues no TTS request and submits no audio for playback.
C9_AnyParseFailureIsFatal ==
    (llm_first \in ParseFailures \/ llm_confirm \in ParseFailures)
      => n_tts = 0 /\ n_play = 0

\* C9 amended: when the response to the session's first LLM request (the
\* one made with the function schema) cannot be parsed, the session has
\* ended with an error, with no action executed, no TTS request and no
\* audio submitted for playback.
C9_FirstParseFailureIsFatal ==
    llm_first \in ParseFailures
      => /\ vc_pc = "done"
         /\ vc_ret = "ESP_FAIL"
         /\ n_llm = 1
         /\ n_action = 0
         /\ n_tts = 0
         /\ n_play = 0

C9_Witness ==
    /\ llm_first = "unparsable"
    /\ transcribed_text = "text"
    /\ vc_pc = "done"
    /\ vc_ret = "ESP_FAIL"
    /\ n_llm = 1

----------------------------------------------------------------------------
(***************************************************************************)
(* Claims about the action manager (checked under SpecAction)              *)
(***************************************************************************)

\* C13: a Pause followed by a Play restores the LED pattern that was shown
\* before the Pause: after the Play the strip is bit for bit what it was
\* when the Pause was executed.
C13_PlayRestoresPattern ==
    since_pause = "resumed" => pixels = pixels_at_pause

\* C14: in every reachable state the volume and the LED intensity are
\* inside 0.0 .. 1.0 (0 .. 10 tenths), whatever typed actions and JSON
\* envelopes were executed.
C14_LevelsInRange ==
    /\ s_device_state.current_volume \in 0..10
    /\ s_device_state.current_led_intensity \in 0..10

\* Both levels were driven to the upper end by values above 1.0, and the
\* volume was driven to the lower end afterwards or before.
C14_Witness ==
    /\ s_device_state.current_led_intensity = 10
    /\ s_device_state.current_volume = 0
    /\ am_ret = "ESP_OK"

\* C15: an execution with an unknown action tag, typed or in a JSON
\* envelope, returns ESP_ERR_INVALID_ARG and leaves the device state, the
\* saved LED snapshot and the strip as they were.
C15_UnknownTagRejected ==
    [][ ((\E t \in AmTasks : am_pc[t] = "executing" /\ am_pc'[t] = "idle")
            /\ am_unknown')
          => /\ am_ret' = "ESP_ERR_INVALID_ARG"
             /\ UNCHANGED <<s_device_state, ledVars>> ]_vars

\* An unknown tag was rejected while the device was paused with a saved
\* LED snapshot.
C15_Witness ==
    /\ am_unknown
    /\ am_ret = "ESP_ERR_INVALID_ARG"
    /\ s_device_state.paused
    /\ s_has_paused_led_state
    /\ \A t \in AmTasks : am_pc[t] = "idle"

\* C16: no two tasks are inside an action execution at the same time.
C16_OneExecutionAtATime ==
    \A t1, t2 \in AmTasks :
        (am_pc[t1] = "executing" /\ am_pc[t2] = "executing") => t1 = t2

----------------------------------------------------------------------------
(***************************************************************************)
(* Claims about the sensor manager (checked under SpecSensor and, for the  *)
(* cadence, SpecCadence)                                                   *)
(***************************************************************************)

\* C17: once sensor_manager_start has returned ESP_OK, and until
\* sensor_manager_stop has returned, every sensor_manager_register of a
\* well-formed sensor fails with ESP_ERR_INVALID_STATE and leaves the
\* registry unchanged.
C17_RegistrationFrozen ==
    [][ \A sensor \in SensorNames :
          (sm_started /\ sensor_manager_register(sensor))
            => (sm_ret' = "ESP_ERR_INVALID_STATE" /\ UNCHANGED s_sensors)
      ]_vars

\* A publisher task starts a cycle.
CycleStarts(p) == sm_pc[p] = "loop" /\ sm_pc'[p] = "collect"

\* C18: a failed cycle does not stop the cadence.  Every cycle starts a
\* whole number of intervals after the task took last_wake, so the next
\* cycle starts one interval after the one before, and after a failed
\* cycle the task starts the next cycle unless the manager is stopped.
C18_FailuresKeepCadence ==
    /\ [][ \A p \in PubIds : CycleStarts(p) => sm_elapsed[p] = 0 ]_vars
    /\ \A p \in PubIds :
          (sm_pc[p] = "delay" /\ sm_outcome[p] \in FailedOutcomes)
             ~> (sm_pc[p] = "collect" \/ ~s_should_run)

\* The cycle after a failed cycle has started, on time, while the manager
\* was not stopped.
C18_Witness ==
    \E p \in PubIds :
        /\ sm_pc[p] = "collect"
        /\ sm_after_failure[p]
        /\ sm_elapsed[p] = 0
        /\ s_should_run

\* The keys of the telemetry format.
CanonicalKeys ==
    {"temperature", "humidity", "co2", "pm1_0", "pm2_5", "pm10", "voc",
     "light", "uv_index", "ambient_lux"}

\* C19: the sensors record of every payload holds only canonical keys,
\* whatever keys the callbacks populated.
C19_OnlyCanonicalKeys ==
    sm_packet \subseteq CanonicalKeys

\* A payload was published from a cycle in which a callback populated
\* keys that the transformation does not read.
C19_Witness ==
    /\ sm_foreign
    /\ sm_packet # {}
    /\ \E p \in PubIds : sm_outcome[p] = "published"

----------------------------------------------------------------------------
(***************************************************************************)
(* Claims about write_pcm_frames (checked under SpecPlay)                  *)
(***************************************************************************)

\* What the DMA is to receive for a source: every frame in source order,
\* a mono sample once as a left/right pair.
RECURSIVE ExpectedFrames(_, _)
ExpectedFrames(src, channels) ==
    IF src = <<>> THEN <<>>
    ELSE IF channels = 1
       THEN <<Head(src), Head(src)>> \o ExpectedFrames(Tail(src), channels)
       ELSE <<src[1], src[2]>> \o ExpectedFrames(Tail(Tail(src)), channels)

\* C20: what the DMA has accepted for a job is at every moment the
\* beginning of the job's frames in source order, and all of them, no more
\* and no less, when write_pcm_frames returns ESP_OK, whatever part of
\* each write the DMA accepted.
C20_FramesInSourceOrder ==
    LET expected == BytesOf(ExpectedFrames(samples, num_channels))
    IN  /\ Len(tx) <= Len(expected)
        /\ tx = SubSeq(expected, 1, Len(tx))
        /\ (wp_pc = "done" /\ wp_ret = "ESP_OK") => tx = expected

\* A mono job of more than one chunk has returned ESP_OK after writes
\* that were accepted in part and writes that were accepted with zero
\* bytes.
C20_Witness ==
    /\ wp_pc = "done"
    /\ wp_ret = "ESP_OK"
    /\ num_channels = 1
    /\ Len(samples) > chunk_frames
    /\ saw_partial
    /\ saw_zero

----------------------------------------------------------------------------
(***************************************************************************)
(* Claims about audio_player_play_wav (checked under SpecWav)              *)
(***************************************************************************)

\* The positions of the sink's calls that equal `call`.
CallsOf(call) == {i \in 1..Len(sink) : sink[i] = call}

\* C21: a job with a progress sink that began to play has, when it ends,
\* received exactly one call (1.0, playing) and exactly one call
\* (0.0, not playing), and they are its last two calls in this order.
C21_EndSignalledOnce ==
    (wav_pc = "done" /\ wav.progress_cb /\ wav_started)
       => /\ Len(sink) >= 2
          /\ sink[Len(sink) - 1] = ProgressCall(1000, TRUE)
          /\ sink[Len(sink)] = ProgressCall(0, FALSE)
          /\ Cardinality(CallsOf(ProgressCall(1000, TRUE))) = 1
          /\ Cardinality(CallsOf(ProgressCall(0, FALSE))) = 1

\* C22: every call with progress above 0 that the sink of a job receives
\* comes after exactly one call with progress 0.
C22_StartsAtZero ==
    \A i \in 1..Len(sink) :
       sink[i].progress > 0
          => Cardinality({j \in 1..(i - 1) : sink[j].progress = 0}) = 1

\* The blob has a chunk of one of the kinds.
HasChunk(w, kinds) == \E i \in 1..Len(w.chunks) : w.chunks[i] \in kinds

\* Bad container magic, or no fmt chunk, or no data chunk.
InvalidHeader(w) ==
    \/ w.magic # "ok"
    \/ ~HasChunk(w, {"fmt ", "fmt_small"})
    \/ ~HasChunk(w, {"data"})

\* The magic is fine and a whole fmt chunk comes before the data chunk,
\* with nothing broken before the data chunk.
WellFormedHeader(w) ==
    /\ w.magic = "ok"
    /\ \E i, j \in 1..Len(w.chunks) :
          /\ i < j
          /\ w.chunks[i] = "fmt "
          /\ w.chunks[j] = "data"
          /\ \A k \in 1..(j - 1) :
                /\ w.chunks[k] \notin {"overrun", "data"}
                /\ w.chunks[k] = "fmt_small" => k > i

\* A format code other than 1 and 3, or a bit depth that does not go with
\* the format code.
Unsupported(w) ==
    \/ w.audio_format \notin {1, 3}
    \/ w.audio_format = 1 /\ w.bits_per_sample # 16
    \/ w.audio_format = 3 /\ w.bits_per_sample # 32

----------------------------------------------------------------------------
(***************************************************************************)
(* Claims about the compressed playback (checked under SpecMp3)            *)
(***************************************************************************)

\* C24: when the underlying decoder has skipped an invalid frame (no
\* samples, frame_bytes above 0) the wrapper reports 0 samples with a
\* bytes-consumed count above 0, and it reports 0 samples with 0 bytes
\* consumed and ESP_OK only when the underlying decoder used up nothing.
C24_ZeroOutcomesDistinct ==
    \A t \in Mp3Tasks :
       mp3_pc[t] \in {"submit", "delay"}
          => /\ (dec_info[t].samples = 0 /\ dec_info[t].frame_bytes > 0)
                   => /\ dec_out[t].samples_decoded = 0
                      /\ dec_out[t].bytes_consumed > 0
             /\ (/\ dec_out[t].ret = "ESP_OK"
                 /\ dec_out[t].samples_decoded = 0
                 /\ dec_out[t].bytes_consumed = 0)
                   => dec_info[t].frame_bytes = 0

\* C25: a playback task begins no pass of its loop after a stop was
\* requested for it or after its duration cap has elapsed, and the wait
\* of audio_file_manager_stop ends either with that task gone or with the
\* polls used up.
C25_StopIsHonoured ==
    /\ \A t \in Mp3Tasks : ~ran_after[t]
    /\ \A t \in Mp3Tasks :
          (httpd_pc = "idle" /\ stop_requested[t] /\ mp3_pc[t] # "exited")
             => stop_left_by = "timeout"

----------------------------------------------------------------------------
(***************************************************************************)
(* Claims about the RX channel and the chunk queue (checked under SpecWake)*)
(***************************************************************************)

\* C26: while a session is in its recording loop no capture worker is in
\* its read loop with s_running set, so that no read of a worker can fall
\* between two reads of the session.
C26_RecordingNotInterleaved ==
    \A d \in DetIds : cb_pc[d] = "record" => ~(s_running /\ cap_alive > 0)

\* The chunks of a sequence keep the order of submission: by call, then
\* by offset within the call.
InOrder(q) ==
    \A i, j \in 1..Len(q) :
       i < j => \/ q[i].call < q[j].call
                \/ q[i].call = q[j].call /\ q[i].offset < q[j].offset

\* The first n elements of a sequence (all of it when it is shorter).
Take(q, n) == SubSeq(q, 1, IF n < Len(q) THEN n ELSE Len(q))

\* C27 (checked under SpecOw): a call of openwakeword_process on a running
\* detector leaves the chunks that were queued where they were, adds of
\* its own chunks the first ones that fit and drops the rest (all of them
\* when the queue was full), and returns ESP_OK; what the detector has
\* received and what is queued is in the order of submission.
C27_OverflowDropsNewest ==
    /\ [](InOrder(ow_received \o ow_queue))
    /\ [][(owp_calls' = owp_calls + 1 /\ owp_ret' = "ESP_OK")
            => /\ ow_queue' = ow_queue
                              \o Take(owp_sent', queue_size - Len(ow_queue))
               /\ ow_received' = ow_received
               /\ Len(ow_queue) = queue_size => ow_queue' = ow_queue]_vars

\* A call found the queue full, submitted a chunk and returned ESP_OK, and
\* the queue is as it was.
C27_Witness ==
    /\ owp_ret = "ESP_OK"
    /\ Len(owp_before) = queue_size
    /\ owp_sent # <<>>
    /\ ow_queue = owp_before

\* C28 (checked under SpecWake): a resume that follows a pause leaves
\* s_running as it was when the pause was called, and a pause or a resume
\* of a detector already paused or already running changes nothing.
C28_PauseResumeSymmetric ==
    [][/\ (ctl_pc = "paused" /\ ctl_pc' = "idle")
           => (s_running' = (running_at_pause = "running"))
       /\ (ctl_pc = "idle" /\ ctl_pc' = "paused")
           => UNCHANGED <<s_running, ctx_running, cap_alive>>
       /\ (ctl_pc = "paused" /\ ctl_pc' = "idle" /\ s_running)
           => UNCHANGED <<s_running, ctx_running, cap_alive>>]_vars

\* C29 (checked under SpecEr): an LLM request is attempted at most 3
\* times, an attempt after the first follows a 2-second delay, and it is
\* made only when the attempt before it met a transport failure.
C29_RetryOnlyAfterTransportFailure ==
    /\ [](Len(er_resps) <= 3)
    /\ [][(Len(er_resps') = Len(er_resps) + 1 /\ er_resps # <<>>)
            => /\ er_waited_ms = LlmBackoffMs
               /\ er_resps[Len(er_resps)] = "transport_error"]_vars

\* C30 (checked under SpecRq): a request whose response body did not fit
\* the response buffer returns ESP_ERR_NO_MEM, and a request that returns
\* ESP_OK holds the whole body.
C30_OverflowIsOutOfMemory ==
    rq_pc = "done"
       => /\ rq_overflow => rq_ret = "ESP_ERR_NO_MEM"
          /\ rq_ret = "ESP_OK" => resp_len = rq_sent


\* C31 (checked under SpecTts): the sink is called once per audio block,
\* in stream order, and for a response of more than one block its first
\* call comes before the whole response is in the buffer.
C31_SinkFedAsResponseArrives ==
    /\ [](\A i \in 1 .. Len(tts_sink) : tts_sink[i] = <<i>>)
    /\ [][(tts_sink = <<>> /\ tts_sink' # <<>> /\ tts_body > 1)
            => tts_received < tts_body]_vars


\* C32 (checked under SpecFr): when the task of a job that was neither
\* stopped nor capped has exited, the frames it submitted are the frames
\* of the file, each once and in file order.
C32_EveryFrameSubmitted ==
    fr_pc = "exited"
       => fr_submitted = [i \in 1 .. Len(fr_file) |-> i]


\* Playback tasks that have been created and have not reached their end.
AliveMp3Tasks == {t \in Mp3Tasks : mp3_pc[t] \in {"start", "loop", "submit", "delay"}}

\* C35 (checked under SpecMp3): at most one compressed-audio playback task
\* exists at any time.
C35_OnePlaybackTask == Cardinality(AliveMp3Tasks) <= 1

\* C36 (checked under SpecMp3): a pass of the playback loop that goes on
\* to another pass has consumed bytes of the buffer, read more of the
\* file or reached end-of-file.
C36_EveryPassMakesProgress ==
    [][\A t \in Mp3Tasks :
          (mp3_pc[t] = "loop" /\ mp3_pc'[t] = "delay")
             => \/ bytes_read'[t] # bytes_read[t]
                \/ file_left'[t] # file_left[t]
                \/ eof'[t]]_vars


\* C33 (checked under SpecWake): at most one microphone capture task
\* exists at any time, counting a task from its creation to its
\* vTaskDelete.
C33_OneCaptureTask == cap_alive + cap_exiting <= 1


\* C34 (checked under SpecDt): a wake event needs at least
\* SPEECH_CHUNKS_REQUIRED speech chunks processed since the detector was
\* last started.
C34_WakeNeedsSpeechSinceStart ==
    dt_event = "wake" => dt_since_start >= SPEECH_CHUNKS_REQUIRED


\* C37 (checked under SpecSensor): when sensor_manager_stop has returned
\* and sensor_manager_start has not been called since, no publisher task
\* exists, so none runs and no cycle begins.
C37_StoppedMeansNoPublisher ==
    (sm_caller = "idle" /\ ~sm_started)
       => \A p \in PubIds : sm_pc[p] = "none"


\* C38 (checked under SpecSi): once sensor_integration_start has returned
\* success and sensor_integration_stop has not been called since, the
\* sampling task exists and is in its loop or about to enter it, whichever
\* of the creator and the new task ran first after xTaskCreate.
C38_StartedMeansSampling ==
    (si_started /\ si_pc = "idle") => si_task \in {"ready", "sampling"}


\* C39 (checked under SpecVoice): a voice session is about to ask for, or
\* has composed, a confirmation that the action was carried out only when
\* execute_function_call handed the function call to action_manager_execute
\* in this session; a call with an unknown name or with missing or invalid
\* arguments is never confirmed.
C39_ConfirmedMeansDispatched ==
    (vc_pc = "confirm" \/ llm_response \in {"confirmation", "Done."})
       => n_action >= 1

=============================================================================
